---- MODULE Spec2Model ----
(***************************************************************************)
(* Model of the POS back office (pos_shop_core, pos_sales): sessions,      *)
(* orders, payments, their business actions and the JSON controllers, and  *)
(* the bearer-token authentication of pos_shop_core.                       *)
(*                                                                         *)
(* Records live in three tables (sequences indexed by record id).  A model *)
(* method is an operator from a database value d to a result               *)
(*   [db |-> database when the method ended or raised,                     *)
(*    raised |-> whether it raised, ret |-> ..., rid |-> ...].             *)
(* A method called on its own (RPC) that raises leaves the database as it  *)
(* was (the exception leaves the transaction).  A controller catches every *)
(* exception and answers normally, so what it did before the statement     *)
(* that raised is kept; the statement that raised has no effect.           *)
(* Amounts are integers (currency units).                                  *)
(***************************************************************************)
EXTENDS Integers, Sequences, FiniteSets, TLC

\* ---------------------------------------------------------------- bounds
MaxSessions == 2
MaxOrders == 1
MaxPayments == 2
MaxAmount == 2
MaxTokens == 3
MaxTime == 3
MaxCreated == 2
\* settings.RATE_LIMIT_PER_MINUTE (default 60), the seconds the clock moves
\* in one step and the last second of the clock
RATE_LIMIT_PER_MINUTE == 2
TimeStep == 20
MaxClock == 140
\* the batch sizes that are sent beside 100 and 101, and the smaller
\* configured maximum of the batch size that is explored
MaxSmallBatch == 2
MinBatchSetting == 1
\* HTTP clients created by the AI operations
MaxClients == 5
\* pos.product.category records
MaxCategories == 3
\* the largest price of a product
MaxPrice == 2

\* ------------------------------------------------------- fixed environment
Shops == {1, 2}
Users == {1, 2}
\* request.env.ref('base.user_admin').id
user_admin == 1
\* product.template.shop_id of products 1..3 (0: the product declares no shop)
ProductShop == <<1, 2, 0>>
Products == DOMAIN ProductShop
\* pos.shop.limit_sessions, read by _check_shop_session and create_session
limit_sessions == [s \in Shops |-> s = 1]
\* pos.shop.cash_difference_threshold, read by action_validate_closing
cash_difference_threshold == [s \in Shops |-> 1]
\* days: timedelta(days=1)
TokenTTL == 1
\* res.users.shop_ids, the shops assigned to every user
shop_ids == <<{1}, {1, 2}>>
\* the fields declared on res.users by ResUsers
ResUsersFields == {"shop_ids", "owned_shop_ids", "managed_shop_ids",
                   "cashier_shop_ids", "pos_active_shop_id", "pos_role",
                   "api_token", "api_token_expiry"}
\* a Many2one that is not set, and a shop_id missing from the request
NoShop == 0
\* request.client.host of the callers of the predictor API
Clients == {"10.0.0.1", "10.0.0.2"}

VARIABLES sessions, orders, payments, api_token, api_token_expiry, now,
          nextToken, tokenLog
\* res.users.pos_active_shop_id of every user (0: not set)
VARIABLES pos_active_shop_id

\* price predictor service: the rate limiter's storage, its clock, and the
\* history of the admitted requests
VARIABLES rate_limit_storage, clock, admitted
\* the last HTTP response of the predictor API and the last result of
\* OpenRouterService.enrich_property_data
VARIABLES response, enriched
\* the one OpenRouterService of the application: its client attribute, the
\* number of HTTP clients created so far, how often each was closed, and for
\* every running AI operation where it is, the client it created and the
\* client it sent its request on
VARIABLES client, created, closes, pc, acquired, sent
\* pos_products and pos_sales configuration records: the pos.product.category
\* table, one pos.payment.method form, one product.template record
VARIABLES categories, method, product_template
\* MLModelManager.model_metrics of the predictor, and the run of
\* DevTools.full_setup
VARIABLES model_metrics, setup
\* the last answer of GET /api/v1/health
VARIABLES health

salesVars == <<sessions, orders, payments>>
authVars == <<api_token, api_token_expiry, now, nextToken, tokenLog>>
userVars == <<pos_active_shop_id>>
rateVars == <<rate_limit_storage, clock, admitted>>
apiVars == <<response, enriched>>
clientVars == <<client, created, closes, pc, acquired, sent>>
predVars == <<rateVars, apiVars, clientVars>>
categoryVars == <<categories>>
methodVars == <<method>>
productVars == <<product_template>>
mlVars == <<model_metrics>>
devVars == <<setup>>
healthVars == <<health>>
confVars == <<categoryVars, methodVars, productVars, mlVars, devVars, healthVars>>
vars == <<salesVars, authVars, userVars, predVars, confVars>>

DB == [sessions |-> sessions, orders |-> orders, payments |-> payments]
Store(d) ==
    /\ sessions' = d.sessions
    /\ orders' = d.orders
    /\ payments' = d.payments

Res(d, raised, ret, rid) == [db |-> d, raised |-> raised, ret |-> ret, rid |-> rid]

RECURSIVE SumSeq(_)
SumSeq(s) == IF s = <<>> THEN 0 ELSE Head(s) + SumSeq(Tail(s))

Abs(x) == IF x < 0 THEN -x ELSE x

MaxOf(S) == CHOOSE x \in S : \A y \in S : y <= x

\* ------------------------------------------------------------ pos.session
SessionIds(d) == DOMAIN d.sessions

\* search([('shop_id','=',shop),('state','=','opened')], limit=1), _order 'id desc'
OpenedOfShop(d, shop) ==
    {j \in SessionIds(d) : d.sessions[j].shop_id = shop /\ d.sessions[j].state = "opened"}
SearchOpenedOfShop(d, shop) ==
    IF OpenedOfShop(d, shop) = {} THEN 0 ELSE MaxOf(OpenedOfShop(d, shop))

check_unicity_off(d, i) == TRUE
check_unicity(d, i) ==
    ~ \E j \in SessionIds(d) :
        /\ j # i
        /\ d.sessions[j].state = "opened"
        /\ d.sessions[j].user_id = d.sessions[i].user_id

check_shop_session_off(d, i) == TRUE
check_shop_session(d, i) ==
    ~ ( /\ limit_sessions[d.sessions[i].shop_id]
        /\ \E j \in SessionIds(d) :
              /\ j # i
              /\ d.sessions[j].state = "opened"
              /\ d.sessions[j].shop_id = d.sessions[i].shop_id )

\* the constraint methods the ORM runs after a create or a write of state
SessionConstraints(d, i) == check_unicity(d, i) /\ check_shop_session(d, i)

\* PosSession.create: a draft session, validated by both constraints
PosSession_create(d, user, shop, cash_control, balance_start) ==
    LET i == Len(d.sessions) + 1
        rec == [user_id |-> user, shop_id |-> shop, state |-> "draft",
                cash_control |-> cash_control,
                cash_register_balance_start |-> balance_start,
                cash_register_id |-> FALSE,
                cash_register_balance_end_real |-> 0]
        d2 == [d EXCEPT !.sessions = Append(@, rec)]
    IN  IF SessionConstraints(d2, i) THEN Res(d2, FALSE, "created", i)
        ELSE Res(d, TRUE, "ValidationError", 0)

\* session.write({'state': st, ...}) followed by the constraints on state
SessionWriteState(d, i, st, register) ==
    LET d2 == [d EXCEPT !.sessions[i].state = st,
                        !.sessions[i].cash_register_id = register]
    IN  IF SessionConstraints(d2, i) THEN Res(d2, FALSE, "True", i)
        ELSE Res(d, TRUE, "ValidationError", i)

action_open_session_any(d, i, journal) ==
    SessionWriteState(d, i, "opened", d.sessions[i].cash_register_id)
action_open_session(d, i, journal) ==
    IF d.sessions[i].state # "draft" THEN Res(d, FALSE, "True", i)
    ELSE IF d.sessions[i].cash_control /\ ~journal THEN Res(d, TRUE, "UserError", i)
    ELSE SessionWriteState(d, i, "opened",
                           d.sessions[i].cash_control \/ d.sessions[i].cash_register_id)

action_close_session(d, i) ==
    IF d.sessions[i].state # "opened" THEN Res(d, FALSE, "True", i)
    ELSE SessionWriteState(d, i, "closing_control", d.sessions[i].cash_register_id)

\* _compute_cash_balance: the register's balance_end; the statement is created
\* with balance_start and this code adds no statement line
cash_register_balance_end(d, i) ==
    IF d.sessions[i].cash_register_id
    THEN d.sessions[i].cash_register_balance_start ELSE 0

\* _compute_cash_difference
cash_register_difference(d, i) ==
    d.sessions[i].cash_register_balance_end_real - cash_register_balance_end(d, i)

CashDifferenceTooHigh(d, i) ==
    /\ d.sessions[i].cash_control
    /\ Abs(cash_register_difference(d, i))
         > cash_difference_threshold[d.sessions[i].shop_id]

\* orders_to_finalize.write({'state': 'done'})
FinalizeOrders(d, i) ==
    [d EXCEPT !.orders = [o \in DOMAIN d.orders |->
        IF d.orders[o].session_id = i /\ d.orders[o].state = "paid"
        THEN [d.orders[o] EXCEPT !.state = "done"] ELSE d.orders[o]]]

action_validate_closing(d, i) ==
    IF d.sessions[i].state # "closing_control" THEN Res(d, FALSE, "True", i)
    ELSE IF CashDifferenceTooHigh(d, i) THEN Res(d, FALSE, "warning", i)
    ELSE SessionWriteState(FinalizeOrders(d, i), i, "closed",
                           d.sessions[i].cash_register_id)

\* orders_to_cancel.write({'state': 'cancel'})
CancelDraftOrders(d, i) ==
    [d EXCEPT !.orders = [o \in DOMAIN d.orders |->
        IF d.orders[o].session_id = i /\ d.orders[o].state = "draft"
        THEN [d.orders[o] EXCEPT !.state = "cancel"] ELSE d.orders[o]]]

action_cancel_session(d, i) ==
    IF d.sessions[i].state \notin {"draft", "opened"} THEN Res(d, TRUE, "UserError", i)
    ELSE SessionWriteState(CancelDraftOrders(d, i), i, "cancelled",
                           d.sessions[i].cash_register_id)

\* -------------------------------------------------------------- pos.order
OrderIds(d) == DOMAIN d.orders
PaymentIds(d) == DOMAIN d.payments

RECURSIVE SumLines(_)
SumLines(ls) ==
    IF ls = <<>> THEN 0 ELSE Head(ls).price_subtotal_incl + SumLines(Tail(ls))

\* _compute_amount_all: amount_total = sum of the lines' price_subtotal_incl
amount_total(d, o) == SumLines(d.orders[o].lines)

RECURSIVE SumPayments(_, _, _, _)
SumPayments(d, o, change, n) ==
    IF n = 0 THEN 0
    ELSE SumPayments(d, o, change, n - 1) +
         ( IF /\ d.payments[n].order_id = o
              /\ d.payments[n].payment_status = "done"
              /\ d.payments[n].is_change = change
           THEN d.payments[n].amount ELSE 0 )

\* _compute_amount_paid: the done payments of the order that are no change
amount_paid(d, o) == SumPayments(d, o, FALSE, Len(d.payments))
amount_return(d, o) == -SumPayments(d, o, TRUE, Len(d.payments))

\* PosOrder.create as the controller calls it: no 'lines' key, so _check_lines
\* is not run; a missing session (foreign key) makes the insert fail
PosOrder_create(d, shop, session, external_id) ==
    LET o == Len(d.orders) + 1
        rec == [shop_id |-> shop, session_id |-> session, state |-> "draft",
                lines |-> <<>>,
                external_id |-> IF external_id # 0 THEN external_id ELSE 100 + o,
                invoice_state |-> "no"]
    IN  IF session \notin SessionIds(d) THEN Res(d, TRUE, "IntegrityError", 0)
        ELSE Res([d EXCEPT !.orders = Append(@, rec)], FALSE, "created", o)

\* PosOrderLine._check_product_shop
check_product_shop(d, o, product) ==
    ~ (ProductShop[product] # 0 /\ ProductShop[product] # d.orders[o].shop_id)

\* pos.order.line create: product_id is required
PosOrderLine_create(d, o, line) ==
    IF line.product_id \notin Products THEN Res(d, TRUE, "IntegrityError", o)
    ELSE IF ~check_product_shop(d, o, line.product_id)
    THEN Res(d, TRUE, "ValidationError", o)
    ELSE Res([d EXCEPT !.orders[o].lines = Append(@, line)], FALSE, "created", o)

\* ------------------------------------------------------------ pos.payment
\* PosPayment._check_amount
check_amount(amount, is_change) ==
    /\ ~(amount <= 0 /\ ~is_change)
    /\ ~(amount >= 0 /\ is_change)

\* PosPayment.create, validated by _check_amount
PosPayment_create(d, o, amount, status, is_change) ==
    LET p == Len(d.payments) + 1
        rec == [order_id |-> o, amount |-> amount, payment_status |-> status,
                is_change |-> is_change]
    IN  IF o \notin OrderIds(d) THEN Res(d, TRUE, "IntegrityError", 0)
        ELSE IF ~check_amount(amount, is_change) THEN Res(d, TRUE, "ValidationError", 0)
        ELSE Res([d EXCEPT !.payments = Append(@, rec)], FALSE, "created", p)

reverse_payment_any_status(d, p) ==
    LET d1 == [d EXCEPT !.payments[p].payment_status = "reversed"]
        c == PosPayment_create(d1, d.payments[p].order_id, -d.payments[p].amount,
                               "done", d.payments[p].is_change)
    IN  IF c.raised THEN Res(d1, TRUE, c.ret, 0)
        ELSE Res(c.db, FALSE, "reversed_payment", c.rid)
\* PosPayment.reverse_payment: the write, then copy() with the negated amount;
\* the copy is a create and runs _check_amount
reverse_payment(d, p) ==
    IF d.payments[p].payment_status # "done" THEN Res(d, TRUE, "ValidationError", 0)
    ELSE LET d1 == [d EXCEPT !.payments[p].payment_status = "reversed"]
             c == PosPayment_create(d1, d.payments[p].order_id, -d.payments[p].amount,
                                    "done", d.payments[p].is_change)
         IN  IF c.raised THEN Res(d1, TRUE, c.ret, 0)
             ELSE Res(c.db, FALSE, "reversed_payment", c.rid)

\* ------------------------------------------------------ pos.order actions
action_paid_unchecked(d, o) ==
    IF d.orders[o].state # "draft" THEN Res(d, FALSE, "True", o)
    ELSE Res([d EXCEPT !.orders[o].state = "paid"], FALSE, "True", o)
action_paid(d, o) ==
    IF d.orders[o].state # "draft" THEN Res(d, FALSE, "True", o)
    ELSE IF amount_total(d, o) > amount_paid(d, o)
    THEN Res(d, TRUE, "UserError: not fully paid", o)
    ELSE Res([d EXCEPT !.orders[o].state = "paid"], FALSE, "True", o)

action_done_unchecked(d, o) ==
    IF d.orders[o].state \notin {"draft", "paid"} THEN Res(d, FALSE, "True", o)
    ELSE Res([d EXCEPT !.orders[o].state = "done"], FALSE, "True", o)
action_done(d, o) ==
    IF d.orders[o].state \notin {"draft", "paid"} THEN Res(d, FALSE, "True", o)
    ELSE LET r == IF d.orders[o].state = "draft" THEN action_paid(d, o)
                  ELSE Res(d, FALSE, "True", o)
         IN  IF r.raised THEN r
             ELSE Res([r.db EXCEPT !.orders[o].state = "done"], FALSE, "True", o)

\* order.payment_ids.filtered(payment_status == 'done'), _order 'id desc'
DonePaymentsOf(d, o) ==
    {p \in PaymentIds(d) : d.payments[p].order_id = o /\ d.payments[p].payment_status = "done"}

RECURSIVE ReverseAll(_, _)
ReverseAll(d, ps) ==
    IF ps = {} THEN Res(d, FALSE, "True", 0)
    ELSE LET p == MaxOf(ps)
             r == reverse_payment(d, p)
         IN  IF r.raised THEN r ELSE ReverseAll(r.db, ps \ {p})

action_cancel(d, o) ==
    IF d.orders[o].state \in {"done", "invoiced"} THEN Res(d, TRUE, "UserError", o)
    ELSE LET r == ReverseAll(d, DonePaymentsOf(d, o))
         IN  IF r.raised THEN Res(r.db, TRUE, r.ret, o)
             ELSE Res([r.db EXCEPT !.orders[o].state = "cancel"], FALSE, "True", o)

\* the account.move is created and posted by the accounting module
action_create_invoice(d, o) ==
    IF d.orders[o].state \notin {"paid", "done"} THEN Res(d, TRUE, "UserError", o)
    ELSE IF d.orders[o].invoice_state = "invoiced" THEN Res(d, TRUE, "UserError", o)
    ELSE Res([d EXCEPT !.orders[o].state = "invoiced",
                       !.orders[o].invoice_state = "invoiced"], FALSE, "True", o)

\* ------------------------------------------------- POSSalesController
\* _validate_api_key: a shop's key is modelled by the shop's id; 0 is a
\* missing or unknown key
validate_api_key(api_key) == api_key \in Shops

\* create_order, "Create order lines": the request lines carry no name, so
\* the handler reads product.name first, which raises MissingError for a
\* product id that resolves to no record
RECURSIVE CreateLines(_, _, _)
CreateLines(d, o, ls) ==
    IF ls = <<>> THEN Res(d, FALSE, "", o)
    ELSE IF Head(ls).product_id \notin Products THEN Res(d, TRUE, "MissingError", o)
    ELSE LET r == PosOrderLine_create(d, o, Head(ls))
         IN  IF r.raised THEN r ELSE CreateLines(r.db, o, Tail(ls))

RECURSIVE CreatePayments(_, _, _)
CreatePayments(d, o, ps) ==
    IF ps = <<>> THEN Res(d, FALSE, "", o)
    ELSE LET r == PosPayment_create(d, o, Head(ps).amount, "done", Head(ps).is_change)
         IN  IF r.raised THEN Res(r.db, TRUE, r.ret, o)
             ELSE CreatePayments(r.db, o, Tail(ps))

\* create_order, "Get or create session"
ResolveSession(d, shop, req) ==
    IF req.session_id # 0 THEN Res(d, FALSE, "", req.session_id)
    ELSE IF SearchOpenedOfShop(d, shop) # 0
    THEN Res(d, FALSE, "", SearchOpenedOfShop(d, shop))
    ELSE LET user == IF req.user_id # 0 THEN req.user_id ELSE user_admin
             c == PosSession_create(d, user, shop, FALSE, 0)
         IN  IF c.raised THEN c
             ELSE LET op == action_open_session(c.db, c.rid, TRUE)
                  IN  Res(op.db, op.raised, op.ret, c.rid)

\* create_order, from "Mark as paid if fully paid" on
RequestedTransitions(d, o, req) ==
    LET r1 == IF req.state = "paid" \/ req.auto_paid THEN action_paid(d, o)
              ELSE Res(d, FALSE, "", o)
    IN  IF r1.raised THEN r1
        ELSE IF req.state = "done" THEN action_done(r1.db, o)
        ELSE Res(r1.db, FALSE, "", o)

create_order(d, req) ==
    IF ~validate_api_key(req.api_key) THEN Res(d, TRUE, "Invalid API key", 0)
    ELSE IF req.lines = <<>> THEN Res(d, TRUE, "Order lines are required", 0)
    ELSE LET shop == req.api_key
             rs == ResolveSession(d, shop, req)
         IN  IF rs.raised THEN Res(rs.db, TRUE, rs.ret, 0)
             ELSE LET co == PosOrder_create(rs.db, shop, rs.rid, req.external_id)
                  IN  IF co.raised THEN Res(co.db, TRUE, co.ret, 0)
                      ELSE LET cl == CreateLines(co.db, co.rid, req.lines)
                           IN  IF cl.raised THEN Res(cl.db, TRUE, cl.ret, 0)
                               ELSE LET cp == CreatePayments(cl.db, co.rid, req.payments)
                                    IN  IF cp.raised THEN Res(cp.db, TRUE, cp.ret, 0)
                                        ELSE LET tr == RequestedTransitions(cp.db, co.rid, req)
                                             IN  IF tr.raised THEN Res(tr.db, TRUE, tr.ret, 0)
                                                 ELSE Res(tr.db, FALSE, "success", co.rid)

create_session(d, req) ==
    IF ~validate_api_key(req.api_key) THEN Res(d, TRUE, "Invalid API key", 0)
    ELSE LET shop == req.api_key
             existing == SearchOpenedOfShop(d, shop)
         IN  IF limit_sessions[shop] /\ existing # 0
             THEN Res(d, TRUE, "already an open session", existing)
             ELSE LET user == IF req.user_id # 0 THEN req.user_id ELSE user_admin
                      c == PosSession_create(d, user, shop, req.cash_control,
                                             req.cash_register_balance_start)
                  IN  IF c.raised THEN Res(c.db, TRUE, c.ret, 0)
                      ELSE IF ~req.auto_open THEN Res(c.db, FALSE, "success", c.rid)
                      ELSE LET op == action_open_session(c.db, c.rid, req.journal)
                           IN  IF op.raised THEN Res(op.db, TRUE, op.ret, 0)
                               ELSE Res(op.db, FALSE, "success", c.rid)

\* close_session; end_real = -1 stands for no cash_register_balance_end_real
\* in the request
close_session(d, req) ==
    IF ~validate_api_key(req.api_key) THEN Res(d, TRUE, "Invalid API key", 0)
    ELSE IF ~ ( /\ req.session_id \in SessionIds(d)
                /\ d.sessions[req.session_id].shop_id = req.api_key
                /\ d.sessions[req.session_id].state = "opened" )
    THEN Res(d, TRUE, "Session not found or not in opened state", 0)
    ELSE LET i == req.session_id
             d1 == IF d.sessions[i].cash_control /\ req.end_real # -1
                   THEN [d EXCEPT !.sessions[i].cash_register_balance_end_real = req.end_real]
                   ELSE d
             cl == action_close_session(d1, i)
         IN  IF cl.raised THEN Res(cl.db, TRUE, cl.ret, 0)
             ELSE IF ~req.auto_validate THEN Res(cl.db, FALSE, "success", i)
             ELSE LET va == action_validate_closing(cl.db, i)
                  IN  IF va.raised THEN Res(va.db, TRUE, va.ret, 0)
                      ELSE Res(va.db, FALSE, "success", i)

\* the controller's reverse_payment: the payment is searched by id and shop
controller_reverse_payment(d, api_key, payment_id) ==
    IF ~validate_api_key(api_key) THEN Res(d, TRUE, "Invalid API key", 0)
    ELSE IF ~ ( /\ payment_id \in PaymentIds(d)
                /\ d.orders[d.payments[payment_id].order_id].shop_id = api_key )
    THEN Res(d, TRUE, "Payment not found", 0)
    ELSE LET r == reverse_payment(d, payment_id)
         IN  IF r.raised THEN Res(r.db, TRUE, r.ret, 0)
             ELSE Res(r.db, FALSE, "success", r.rid)

\* ----------------------------------------------------- res.users tokens
NoToken == 0
NoExpiry == -1

\* search([('api_token', '=', token)], limit=1); 0 when no user has it
UserOfToken(token) ==
    IF \E u \in Users : api_token[u] = token
    THEN CHOOSE u \in Users : api_token[u] = token ELSE 0

\* "Check token expiry" of get_current_user
TokenExpired_never(u) == FALSE
TokenExpired(u) == api_token_expiry[u] = NoExpiry \/ api_token_expiry[u] < now

\* users the sweep clears
ExpiredUsers ==
    {u \in Users : api_token_expiry[u] # NoExpiry /\ api_token_expiry[u] < now}

\* history of the issued tokens, for the statements about the past
LogSet(log, toks, status) ==
    [t \in DOMAIN log |->
        IF t \in toks /\ log[t].status = "active"
        THEN [log[t] EXCEPT !.status = status] ELSE log[t]]

\* ------------------------------------------------------------------ state
\* ------------------------------------------ predictor API values
\* a JSON value returned by the enrichment: a dict (empty or not, with or
\* without the keys market_insights and recommendations), a list or a number
JsonValue(kind, empty, market_insights, recommendations) ==
    [kind |-> kind, empty |-> empty, market_insights |-> market_insights,
     recommendations |-> recommendations]
EmptyMap == JsonValue("dict", TRUE, "none", "none")

\* an HTTP response: status, the keys of the JSON body, the value of
\* body.error, body.message, the headers set by the handler, and for a
\* prediction the optional fields and for a batch the predictions
HttpResponse(status, keys, message, headers, market_insights, comparable, predictions) ==
    [status |-> status, keys |-> keys, error |-> "error" \in keys,
     message |-> message, headers |-> headers,
     market_insights |-> market_insights, comparable_properties |-> comparable,
     predictions |-> predictions]
NoResponse == HttpResponse(0, {}, <<"", 0>>, {}, "none", "none", <<>>)
\* OpenRouterService.client before the first operation (None), and the
\* operations that share the service
NoClient == 0
Operations == {"enrich_property_data", "generate_market_analysis",
               "generate_property_description", "health_check"}
\* a new pos.payment.method form: the field defaults; for the three Char
\* fields of the terminal TRUE says that a value is set
NewMethod ==
    [is_cash_count |-> FALSE, split_transactions |-> FALSE,
     use_payment_terminal |-> FALSE, payment_terminal_provider |-> "none",
     terminal_api_key |-> FALSE, terminal_api_secret |-> FALSE,
     terminal_endpoint |-> FALSE]
\* a Datetime field that is not set
NoDate == -1
\* a new product.template: list_price with the pos_products price fields;
\* a Monetary field that is not set reads 0
NewProduct ==
    [list_price |-> 1, list_price_shop |-> 0, discount_price |-> 0,
     discount_start |-> NoDate, discount_end |-> NoDate]
\* no health request answered yet
NoHealth ==
    [called |-> FALSE, enable |-> FALSE, configured |-> FALSE, live |-> "",
     status |-> 0, ml_service |-> "", openrouter_service |-> ""]
\* MLModelManager.__init__: self.models = {} and self.model_metrics = {}
NoMetrics == [models |-> {}, metrics |-> [n \in {} |-> 0]]
\* DevTools.full_setup: the entries of steps, in the order of the list
StepNames == <<"Database setup", "Sample data generation",
               "ML models training", "Code linting", "Tests">>

\* setup_database and train_models are declared async def: calling them
\* only creates a coroutine object
IsCoroutineFunction(name) == name \in {"Database setup", "ML models training"}

\* lint_code: the descriptions of its four commands
LintCommands == {"Black formatting", "Import sorting", "Flake8 linting",
                 "Type checking"}

\* full_setup before its first statement: nothing evaluated, nothing started
NotStarted ==
    [pc        |-> "steps",
     i         |-> 1,
     started   |-> <<>>,
     result    |-> [n \in 1..Len(StepNames) |-> "none"],
     lint      |-> {},
     failed_at |-> "none",
     ret       |-> "none"]
NoEnrichment ==
    [called |-> FALSE, enable |-> FALSE, configured |-> FALSE, ai |-> "",
     raised |-> FALSE, value |-> EmptyMap]

Init ==
    /\ sessions = <<>>
    /\ orders = <<>>
    /\ payments = <<>>
    /\ api_token = [u \in Users |-> NoToken]
    /\ api_token_expiry = [u \in Users |-> NoExpiry]
    /\ now = 0
    /\ nextToken = 1
    /\ tokenLog = <<>>
    /\ pos_active_shop_id = [u \in Users |-> NoShop]
    /\ rate_limit_storage = [c \in {} |-> <<>>]
    /\ clock = 0
    /\ admitted = [c \in Clients |-> <<>>]
    /\ response = NoResponse
    /\ enriched = NoEnrichment
    /\ client = NoClient
    /\ created = 0
    /\ closes = [c \in 1..MaxClients |-> 0]
    /\ pc = [o \in Operations |-> "idle"]
    /\ acquired = [o \in Operations |-> NoClient]
    /\ sent = [o \in Operations |-> NoClient]
    /\ categories = <<>>
    /\ method = NewMethod
    /\ product_template = NewProduct
    /\ model_metrics = NoMetrics
    /\ setup = NotStarted
    /\ health = NoHealth

\* a model method called on its own: a raise leaves the database untouched
Committed(r) == IF r.raised THEN DB ELSE r.db
RunModel(r) ==
    /\ Store(Committed(r))
    /\ UNCHANGED <<authVars, userVars, confVars, predVars>>

\* a controller: the handler catches the exception and answers success False
RunController(r) ==
    /\ Store(r.db)
    /\ UNCHANGED <<authVars, userVars, confVars, predVars>>

\* --------------------------------------------------------- session steps
SessionCreate(user, shop, cash_control, balance_start) ==
    /\ Len(sessions) < MaxSessions
    /\ RunModel(PosSession_create(DB, user, shop, cash_control, balance_start))

OpenSession(i, journal) ==
    /\ i \in DOMAIN sessions
    /\ RunModel(action_open_session(DB, i, journal))

CloseSession(i) ==
    /\ i \in DOMAIN sessions
    /\ RunModel(action_close_session(DB, i))

ValidateClosing(i) ==
    /\ i \in DOMAIN sessions
    /\ RunModel(action_validate_closing(DB, i))

CancelSession(i) ==
    /\ i \in DOMAIN sessions
    /\ RunModel(action_cancel_session(DB, i))

CreateSessionRequest(req) ==
    /\ Len(sessions) < MaxSessions
    /\ RunController(create_session(DB, req))

CloseSessionRequest(req) ==
    /\ RunController(close_session(DB, req))

CreateOrderRequest(req) ==
    /\ Len(sessions) < MaxSessions \/ req.session_id # 0
         \/ SearchOpenedOfShop(DB, req.api_key) # 0
    /\ Len(orders) < MaxOrders
    /\ Len(payments) + Len(req.payments) <= MaxPayments
    /\ RunController(create_order(DB, req))

\* ------------------------------------------------- order, payment steps
ActionPaid(o) ==
    /\ o \in DOMAIN orders
    /\ RunModel(action_paid(DB, o))

ActionDone(o) ==
    /\ o \in DOMAIN orders
    /\ RunModel(action_done(DB, o))

ActionCancel(o) ==
    /\ o \in DOMAIN orders
    /\ Len(payments) + Cardinality(DonePaymentsOf(DB, o)) <= MaxPayments
    /\ RunModel(action_cancel(DB, o))

ActionCreateInvoice(o) ==
    /\ o \in DOMAIN orders
    /\ RunModel(action_create_invoice(DB, o))

PaymentCreate(o, amount, status, is_change) ==
    /\ o \in DOMAIN orders
    /\ Len(payments) < MaxPayments
    /\ RunModel(PosPayment_create(DB, o, amount, status, is_change))

ReversePayment(p) ==
    /\ p \in DOMAIN payments
    /\ payments[p].payment_status = "done" => Len(payments) < MaxPayments
    /\ RunModel(reverse_payment(DB, p))

ReversePaymentRequest(api_key, p) ==
    /\ (p \in DOMAIN payments /\ payments[p].payment_status = "done")
          => Len(payments) < MaxPayments
    /\ RunController(controller_reverse_payment(DB, api_key, p))

\* ------------------------------------------------------ AuthController
\* bearer tokens a client may present: 0 is a missing or malformed
\* Authorization header, 1..MaxTokens the uuid4 values in order of issue
Bearers == 0..MaxTokens

\* get_current_user: "Unauthorized" stands for the three 401 answers
get_current_user(token) ==
    IF token = NoToken THEN [status |-> "Unauthorized", user |-> 0]
    ELSE IF UserOfToken(token) = 0 THEN [status |-> "Unauthorized", user |-> 0]
    ELSE IF TokenExpired(UserOfToken(token)) THEN [status |-> "Unauthorized", user |-> 0]
    ELSE [status |-> "ok", user |-> UserOfToken(token)]

\* login: valid says whether session.authenticate accepts the credentials
Login(u, valid) ==
    /\ nextToken <= MaxTokens
    /\ IF valid
       THEN /\ api_token' = [api_token EXCEPT ![u] = nextToken]
            /\ api_token_expiry' = [api_token_expiry EXCEPT ![u] = now + TokenTTL]
            /\ nextToken' = nextToken + 1
            /\ tokenLog' = Append(LogSet(tokenLog, {api_token[u]}, "replaced"),
                                  [user |-> u, issued_at |-> now, status |-> "active"])
       ELSE UNCHANGED <<api_token, api_token_expiry, nextToken, tokenLog>>
    /\ UNCHANGED <<now, salesVars, userVars, confVars, predVars>>

Logout(token) ==
    /\ IF token # NoToken /\ UserOfToken(token) # 0
       THEN /\ api_token' = [api_token EXCEPT ![UserOfToken(token)] = NoToken]
            /\ api_token_expiry' = [api_token_expiry EXCEPT ![UserOfToken(token)] = NoExpiry]
            /\ tokenLog' = LogSet(tokenLog, {token}, "loggedout")
       ELSE UNCHANGED <<api_token, api_token_expiry, tokenLog>>
    /\ UNCHANGED <<nextToken, now, salesVars, userVars, confVars, predVars>>

\* ResUsers._check_token_validity, the cron sweep
TokenSweep ==
    /\ api_token' = [u \in Users |-> IF u \in ExpiredUsers THEN NoToken ELSE api_token[u]]
    /\ api_token_expiry' =
          [u \in Users |-> IF u \in ExpiredUsers THEN NoExpiry ELSE api_token_expiry[u]]
    /\ tokenLog' = LogSet(tokenLog, {api_token[u] : u \in ExpiredUsers}, "swept")
    /\ UNCHANGED <<nextToken, now, salesVars, userVars, confVars, predVars>>

\* datetime.now() advances by one day
Tick ==
    /\ now < MaxTime
    /\ now' = now + 1
    /\ UNCHANGED <<api_token, api_token_expiry, nextToken, tokenLog, salesVars, userVars, confVars, predVars>>

\* ------------------------------------------------------- request inputs
Line(product, price) == [product_id |-> product, price_subtotal_incl |-> price]
Pay(amount, is_change) == [amount |-> amount, is_change |-> is_change]

OrderReq(api_key, session_id, user_id, lines, pays, state, auto_paid) ==
    [api_key |-> api_key, session_id |-> session_id, user_id |-> user_id,
     lines |-> lines, payments |-> pays, state |-> state, auto_paid |-> auto_paid,
     external_id |-> 0]

\* requests of the session specification: any key, any session id (also of
\* another shop or of no session), a free product, no payment
SessionOrderReqs ==
    {OrderReq(k, sid, u, ls, <<>>, st, FALSE) :
        k \in Shops, sid \in 0..MaxSessions, u \in {0, 2},
        ls \in {<<Line(3, 0)>>}, st \in {"", "paid"}}
    \cup {OrderReq(0, 0, 0, <<Line(3, 0)>>, <<>>, "", FALSE),
          OrderReq(1, 0, 0, <<>>, <<>>, "", FALSE)}

SessionReq(api_key, user_id, cash_control, balance_start, auto_open, journal) ==
    [api_key |-> api_key, user_id |-> user_id, cash_control |-> cash_control,
     cash_register_balance_start |-> balance_start, auto_open |-> auto_open,
     journal |-> journal]

\* journal: whether a cash journal is defined when the session is opened
CreateSessionReqs ==
    {SessionReq(k, u, FALSE, 0, ao, TRUE) : k \in Shops, u \in {0, 2}, ao \in BOOLEAN}
    \cup {SessionReq(k, u, TRUE, bs, ao, TRUE) :
            k \in Shops, u \in {0, 2}, bs \in {0, 2}, ao \in BOOLEAN}
    \cup {SessionReq(1, 0, TRUE, 0, TRUE, FALSE), SessionReq(0, 0, FALSE, 0, TRUE, TRUE)}

CloseReq(api_key, session_id, end_real, auto_validate) ==
    [api_key |-> api_key, session_id |-> session_id, end_real |-> end_real,
     auto_validate |-> auto_validate]

CloseSessionReqs ==
    {CloseReq(k, i, er, av) :
        k \in Shops, i \in 1..MaxSessions, er \in {-1, 1}, av \in BOOLEAN}
    \cup {CloseReq(0, 1, -1, TRUE)}

NextSession ==
    \/ \E u \in Users, s \in Shops, cc \in BOOLEAN, bs \in {0, 2} : SessionCreate(u, s, cc, bs)
    \/ \E i \in 1..MaxSessions, journal \in BOOLEAN : OpenSession(i, journal)
    \/ \E i \in 1..MaxSessions : CloseSession(i)
    \/ \E i \in 1..MaxSessions : ValidateClosing(i)
    \/ \E i \in 1..MaxSessions : CancelSession(i)
    \/ \E req \in CreateSessionReqs : CreateSessionRequest(req)
    \/ \E req \in CloseSessionReqs : CloseSessionRequest(req)
    \/ \E req \in SessionOrderReqs : CreateOrderRequest(req)

SpecSession == Init /\ [][NextSession]_vars

\* requests of the order specification: the session is resolved by the
\* handler; products of the shop, of another shop and of no shop; payments
\* with valid and invalid amounts
PayOrderReqs ==
    {OrderReq(k, 0, 0, ls, ps, st, ap) :
        k \in Shops,
        ls \in {<<Line(3, a)>> : a \in 0..MaxAmount} \cup {<<Line(1, 1)>>, <<Line(3, 1), Line(3, 1)>>},
        ps \in {<<>>} \cup {<<Pay(a, FALSE)>> : a \in 0..MaxAmount}
               \cup {<<Pay(1, FALSE), Pay(1, FALSE)>>, <<Pay(2, FALSE), Pay(-1, TRUE)>>,
                     <<Pay(1, TRUE)>>},
        st \in {"", "paid", "done"}, ap \in BOOLEAN}

PaymentStatus == {"pending", "done", "failed", "reversed"}

NextOrder ==
    \/ \E req \in PayOrderReqs : CreateOrderRequest(req)
    \/ \E o \in 1..MaxOrders : ActionPaid(o)
    \/ \E o \in 1..MaxOrders : ActionDone(o)
    \/ \E o \in 1..MaxOrders : ActionCancel(o)
    \/ \E o \in 1..MaxOrders : ActionCreateInvoice(o)
    \/ \E o \in 1..MaxOrders, a \in (-MaxAmount)..MaxAmount, st \in PaymentStatus,
          ch \in BOOLEAN : PaymentCreate(o, a, st, ch)
    \/ \E p \in 1..MaxPayments : ReversePayment(p)
    \/ \E k \in {0} \cup Shops, p \in 1..MaxPayments : ReversePaymentRequest(k, p)

SpecOrder == Init /\ [][NextOrder]_vars

\* ==================================================================
\* Properties
\* ==================================================================

\* the completed payments of order o that are no change, as a set
DoneNonChange(d, o) ==
    {p \in DOMAIN d.payments :
        /\ d.payments[p].order_id = o
        /\ d.payments[p].payment_status = "done"
        /\ ~d.payments[p].is_change}

RECURSIVE SumAmounts(_, _)
SumAmounts(d, ps) ==
    IF ps = {} THEN 0
    ELSE LET p == CHOOSE x \in ps : TRUE
         IN  d.payments[p].amount + SumAmounts(d, ps \ {p})

\* C1: action_paid on a draft order sets the state to paid if and only if
\* amount_total <= amount_paid, where amount_paid is the sum of the order's
\* payments with status done and is_change false; otherwise it raises the
\* 'not fully paid' error and the order stays in draft.
C1_ActionPaid ==
    \A o \in DOMAIN orders :
        orders[o].state = "draft" =>
            LET r == action_paid(DB, o)
                post == Committed(r)
                paid == SumAmounts(DB, DoneNonChange(DB, o))
            IN  /\ post.orders[o].state = "paid" <=> amount_total(DB, o) <= paid
                /\ amount_total(DB, o) <= paid => ~r.raised
                /\ amount_total(DB, o) > paid =>
                      /\ r.raised
                      /\ r.ret = "UserError: not fully paid"
                      /\ post.orders[o].state = "draft"

\* C1 witness: an order was marked paid with a positive total, covered by
\* its completed payments
C1_Witness ==
    \E o \in DOMAIN orders :
        /\ orders[o].state = "paid"
        /\ amount_total(DB, o) > 0
        /\ SumAmounts(DB, DoneNonChange(DB, o)) >= amount_total(DB, o)

\* C2: reversing a done, non-change payment of amount A > 0 succeeds, marks
\* the original reversed, creates a new done payment of amount -A, and the
\* order's amount_paid decreases by exactly A.
C2_ReversalRoundTrip ==
    \A p \in DOMAIN payments :
        ( /\ payments[p].payment_status = "done"
          /\ ~payments[p].is_change
          /\ payments[p].amount > 0 ) =>
            LET r == reverse_payment(DB, p)
                post == Committed(r)
                o == payments[p].order_id
                n == Len(payments) + 1
            IN  /\ ~r.raised
                /\ post.payments[p].payment_status = "reversed"
                /\ Len(post.payments) = n
                /\ post.payments[n].amount = -payments[p].amount
                /\ post.payments[n].payment_status = "done"
                /\ post.payments[n].order_id = o
                /\ SumAmounts(post, DoneNonChange(post, o))
                     = SumAmounts(DB, DoneNonChange(DB, o)) - payments[p].amount

\* C6: action_cancel on an order in draft or paid reverses every payment of
\* the order whose status is done and then sets the order state to cancel;
\* on an order in done or invoiced it raises and changes neither the order's
\* state nor any of its payments.
C6_ActionCancel ==
    \A o \in DOMAIN orders :
        LET r == action_cancel(DB, o)
            post == Committed(r)
        IN  /\ orders[o].state \in {"draft", "paid"} =>
                /\ ~r.raised
                /\ post.orders[o].state = "cancel"
                /\ \A p \in DonePaymentsOf(DB, o) :
                      post.payments[p].payment_status = "reversed"
            /\ orders[o].state \in {"done", "invoiced"} =>
                /\ r.raised
                /\ post.orders = orders
                /\ post.payments = payments

\* C8: reverse_payment on a payment whose status is not done raises and
\* leaves that payment and the payments of its order unchanged, through the
\* model and through the endpoint; a reversed payment stays reversed, so the
\* same payment is never reversed twice.
C8_OnlyDoneReversed ==
    /\ [](\A p \in DOMAIN payments :
            payments[p].payment_status # "done" =>
                /\ reverse_payment(DB, p).raised
                /\ Committed(reverse_payment(DB, p)).payments = payments
                /\ \A k \in Shops :
                      /\ controller_reverse_payment(DB, k, p).raised
                      /\ controller_reverse_payment(DB, k, p).db.payments = payments)
    /\ [][\A p \in DOMAIN payments :
            payments[p].payment_status = "reversed" =>
                /\ p \in DOMAIN payments'
                /\ payments'[p] = payments[p]]_vars

\* C8 witness: a payment that was already reversed and one that is pending
\* or failed exist
C8_Witness ==
    /\ \E p \in DOMAIN payments : payments[p].payment_status = "reversed"
    /\ \E p \in DOMAIN payments : payments[p].payment_status \in {"pending", "failed"}

SessionEdges ==
    {<<"draft", "opened">>, <<"opened", "closing_control">>,
     <<"closing_control", "closed">>, <<"draft", "cancelled">>,
     <<"opened", "cancelled">>}

\* the state of every session after a model call with result r, given that
\* only session i may move, and only from the states in from
OnlyMoves(r, i, from) ==
    \A k \in DOMAIN sessions :
        LET old == sessions[k].state
            new == Committed(r).sessions[k].state
        IN  new # old => k = i /\ old \in from /\ <<old, new>> \in SessionEdges

\* C3: through open, close, validate closing and cancel a session's state
\* changes only along draft->opened, opened->closing_control,
\* closing_control->closed, draft->cancelled and opened->cancelled; an action
\* called in any other state leaves the state unchanged; closed and
\* cancelled are never left by any step (a close request that also validates
\* takes opened->closing_control->closed in one step).
C3_SessionStateMachine ==
    /\ [](\A i \in DOMAIN sessions :
            /\ \A j \in BOOLEAN : OnlyMoves(action_open_session(DB, i, j), i, {"draft"})
            /\ OnlyMoves(action_close_session(DB, i), i, {"opened"})
            /\ OnlyMoves(action_validate_closing(DB, i), i, {"closing_control"})
            /\ OnlyMoves(action_cancel_session(DB, i), i, {"draft", "opened"})
            /\ \A j \in BOOLEAN :
                 Committed(action_open_session(DB, i, j)).sessions[i].state
                    \in {sessions[i].state, "opened"}
            /\ Committed(action_close_session(DB, i)).sessions[i].state
                    \in {sessions[i].state, "closing_control"}
            /\ Committed(action_validate_closing(DB, i)).sessions[i].state
                    \in {sessions[i].state, "closed"}
            /\ Committed(action_cancel_session(DB, i)).sessions[i].state
                    \in {sessions[i].state, "cancelled"})
    /\ [][\A i \in DOMAIN sessions :
            /\ i \in DOMAIN sessions'
            /\ sessions'[i].state # sessions[i].state =>
                 <<sessions[i].state, sessions'[i].state>>
                    \in SessionEdges \cup {<<"opened", "closed">>}]_vars

\* C3 witness: one session went all the way to closed, another was cancelled
C3_Witness ==
    /\ \E i \in DOMAIN sessions : sessions[i].state = "closed"
    /\ \E i \in DOMAIN sessions : sessions[i].state = "cancelled"

\* C4: after any sequence of session create, open, close, validate-closing
\* and cancel operations, through the model or the sessions/orders API, at
\* most one session per user is in state opened.
C4_OneOpenedPerUser ==
    \A u \in Users :
        Cardinality({i \in DOMAIN sessions :
            sessions[i].state = "opened" /\ sessions[i].user_id = u}) <= 1

\* C4 witness: two sessions of one user, one opened and the other still
\* draft (opening it is refused)
C4_Witness ==
    \E i, j \in DOMAIN sessions :
        /\ i # j
        /\ sessions[i].user_id = sessions[j].user_id
        /\ sessions[i].state = "opened"
        /\ sessions[j].state = "draft"
        /\ action_open_session(DB, j, TRUE).raised

\* C5: a shop that enforces a session limit has at most one opened session,
\* and the create session endpoint, when one is already opened, creates
\* nothing and answers success false with the existing session's id (its
\* name is the id's sequence name).
C5_OneOpenedPerLimitedShop ==
    \A s \in Shops :
        limit_sessions[s] =>
            /\ Cardinality(OpenedOfShop(DB, s)) <= 1
            /\ OpenedOfShop(DB, s) # {} =>
                 \A req \in CreateSessionReqs :
                    req.api_key = s =>
                        LET r == create_session(DB, req)
                        IN  /\ r.raised
                            /\ r.db = DB
                            /\ r.rid \in OpenedOfShop(DB, s)

\* C5 witness: a limited shop with an opened session and a second session
\* of the same shop that is not opened
C5_Witness ==
    \E i, j \in DOMAIN sessions :
        /\ i # j
        /\ limit_sessions[sessions[i].shop_id]
        /\ sessions[i].shop_id = sessions[j].shop_id
        /\ sessions[i].state = "opened"
        /\ sessions[j].state = "draft"
        /\ sessions[i].user_id # sessions[j].user_id

\* C7: action_validate_closing on a session in closing_control: when cash
\* control is off or |real ending balance - computed ending balance| <= the
\* shop's threshold, the session becomes closed and every paid order of the
\* session becomes done; when the threshold is exceeded, the session and its
\* orders are unchanged and a warning action is returned.
C7_ValidateClosing ==
    \A i \in DOMAIN sessions :
        sessions[i].state = "closing_control" =>
            LET r == action_validate_closing(DB, i)
                post == Committed(r)
                diff == sessions[i].cash_register_balance_end_real
                          - cash_register_balance_end(DB, i)
                within == \/ ~sessions[i].cash_control
                          \/ Abs(diff) <= cash_difference_threshold[sessions[i].shop_id]
            IN  IF within
                THEN /\ ~r.raised
                     /\ post.sessions[i].state = "closed"
                     /\ \A o \in DOMAIN orders :
                          (orders[o].session_id = i /\ orders[o].state = "paid")
                             => post.orders[o].state = "done"
                ELSE /\ ~r.raised
                     /\ r.ret = "warning"
                     /\ post.sessions = sessions
                     /\ post.orders = orders

\* C10: every order created through the create order endpoint with shop S's
\* key has shop S and a session that belongs to shop S, also when the
\* request carries a session_id.
C10_OrdersScoped ==
    /\ \A o \in DOMAIN orders :
          sessions[orders[o].session_id].shop_id = orders[o].shop_id
    /\ \A req \in SessionOrderReqs :
          Len(create_order(DB, req).db.orders) > Len(orders) =>
             create_order(DB, req).db.orders[Len(orders) + 1].shop_id = req.api_key

NextAuth ==
    \/ \E u \in Users, valid \in BOOLEAN : Login(u, valid)
    \/ \E t \in Bearers : Logout(t)
    \/ TokenSweep
    \/ Tick

SpecAuth == Init /\ [][NextAuth]_vars

\* C9: after any sequence of login, logout, token-sweep and time-advance
\* steps, get current user accepts a bearer token only if it is the token
\* currently stored on a user whose expiry is set and not in the past; a
\* token that was logged out, replaced by a later login of the same user,
\* swept, or is older than 24 hours is rejected as Unauthorized.
C9_TokenAcceptance ==
    \A t \in Bearers :
        LET a == get_current_user(t)
        IN  /\ a.status = "ok" =>
                /\ a.user \in Users
                /\ api_token[a.user] = t
                /\ api_token_expiry[a.user] # NoExpiry
                /\ api_token_expiry[a.user] >= now
                /\ t \in DOMAIN tokenLog
                /\ tokenLog[t].user = a.user
                /\ tokenLog[t].status = "active"
                /\ now <= tokenLog[t].issued_at + TokenTTL
            /\ ( \/ t \notin DOMAIN tokenLog
                 \/ tokenLog[t].status \in {"loggedout", "replaced", "swept"}
                 \/ now > tokenLog[t].issued_at + TokenTTL )
                => a.status = "Unauthorized"

\* C9 witness: one token is accepted while a logged-out token, a replaced
\* token or an expired one is presented and refused
C9_Witness ==
    /\ \E t \in Bearers : get_current_user(t).status = "ok"
    /\ \E t \in DOMAIN tokenLog : tokenLog[t].status = "loggedout"
    /\ \E t \in DOMAIN tokenLog :
          \/ tokenLog[t].status = "replaced"
          \/ tokenLog[t].status = "active" /\ now > tokenLog[t].issued_at + TokenTTL

\* ------------------------------------------- create order calls only
\* a product id that resolves to no product.product record
MissingProduct == 4

\* request bodies with and without an external_id, with products of the
\* shop, of another shop, of no shop and of no record, with a valid and an
\* invalid payment
ExternalIds == {0, 7, 8}
CreateOrderReqs ==
    {[OrderReq(k, 0, u, ls, ps, st, FALSE) EXCEPT !.external_id = e] :
        k \in {0} \cup Shops, u \in {0, 2},
        ls \in {<<Line(3, 1)>>, <<Line(1, 1)>>, <<Line(MissingProduct, 1)>>,
                <<Line(3, 1), Line(MissingProduct, 1)>>, <<>>},
        ps \in {<<>>, <<Pay(1, FALSE)>>, <<Pay(0, FALSE)>>},
        st \in {"", "paid"}, e \in ExternalIds}

CreateOrderCall(req) ==
    /\ Len(sessions) < MaxSessions \/ SearchOpenedOfShop(DB, req.api_key) # 0
    /\ Len(orders) < MaxCreated
    /\ Len(payments) + Len(req.payments) <= MaxPayments
    /\ RunController(create_order(DB, req))

NextCreate == \E req \in CreateOrderReqs : CreateOrderCall(req)

SpecCreate == Init /\ [][NextCreate]_vars

\* C11: the external id is an idempotency key: after create order calls
\* that repeat an external_id for the same shop, exactly one stored order
\* of that shop carries it.
C11_ExternalIdIdempotent ==
    \A a, b \in DOMAIN orders :
        ( /\ orders[a].shop_id = orders[b].shop_id
          /\ orders[a].external_id = orders[b].external_id ) => a = b

\* C12: after any sequence of create order calls, answered with success or
\* with failure, every stored order has at least one order line.
C12_OrdersHaveLines ==
    \A o \in DOMAIN orders : orders[o].lines # <<>>

\* ==================================================================
\* Price predictor API (app/api/routes.py)
\* ==================================================================

\* the one minute window of check_rate_limit, in seconds
RateWindow == 60
\* RateLimitException(retry_after=60)
RetryAfter == 60

\* the timestamps of s that are later than cutoff, in order
RECURSIVE Newer(_, _)
Newer(s, cutoff) ==
    IF s = <<>> THEN <<>>
    ELSE IF Head(s) > cutoff THEN <<Head(s)>> \o Newer(Tail(s), cutoff)
    ELSE Newer(Tail(s), cutoff)

\* "Clean old entries" and the creation of a missing entry
Cleaned(st, ip, t) ==
    [c \in DOMAIN st \cup {ip} |->
        IF c # ip THEN st[c]
        ELSE IF ip \in DOMAIN st THEN Newer(st[ip], t - RateWindow) ELSE <<>>]

\* check_rate_limit for a request of client ip at time t: the storage after
\* the call, whether RateLimitException was raised, and its retry_after
check_rate_limit_late(st, ip, t) ==
    LET cl == Cleaned(st, ip, t)
    IN  IF Len(cl[ip]) > RATE_LIMIT_PER_MINUTE
        THEN [storage |-> cl, raised |-> TRUE, retry_after |-> RetryAfter]
        ELSE [storage |-> [cl EXCEPT ![ip] = Append(@, t)], raised |-> FALSE,
              retry_after |-> 0]
check_rate_limit(st, ip, t) ==
    LET cl == Cleaned(st, ip, t)
    IN  IF Len(cl[ip]) >= RATE_LIMIT_PER_MINUTE
        THEN [storage |-> cl, raised |-> TRUE, retry_after |-> RetryAfter]
        ELSE [storage |-> [cl EXCEPT ![ip] = Append(@, t)], raised |-> FALSE,
              retry_after |-> 0]

\* a rate limited request of client ip; check_rate_limit has no await, so
\* it runs as one step of the event loop
RateLimitedRequest(ip) ==
    LET r == check_rate_limit(rate_limit_storage, ip, clock)
    IN  /\ rate_limit_storage' = r.storage
        /\ admitted' = IF r.raised THEN admitted
                       ELSE [admitted EXCEPT ![ip] = Append(@, clock)]
        /\ UNCHANGED <<clock, salesVars, authVars, userVars, confVars, clientVars, apiVars>>

\* datetime.now() advances
AdvanceClock ==
    /\ clock + TimeStep <= MaxClock
    /\ clock' = clock + TimeStep
    /\ UNCHANGED <<rate_limit_storage, admitted, salesVars, authVars, userVars, confVars, clientVars, apiVars>>

NextRate ==
    \/ \E ip \in Clients : RateLimitedRequest(ip)
    \/ AdvanceClock

SpecRate == Init /\ [][NextRate]_vars

\* the requests of client c admitted in the 60 seconds that end at t
AdmittedWithin(c, t) ==
    {i \in DOMAIN admitted[c] :
        admitted[c][i] > t - RateWindow /\ admitted[c][i] <= t}

\* the same requests as a sequence, oldest first
RecentlyAdmitted(c, t) ==
    SelectSeq(admitted[c], LAMBDA x : x > t - RateWindow /\ x <= t)

\* C13: with per-minute limit L, check_rate_limit rejects a client's
\* request, with retry_after 60, exactly when L requests of that client
\* were admitted within the preceding 60 seconds, and otherwise admits and
\* records it; a rejected request is not recorded; so no client has more
\* than L admitted requests in any 60-second window, and a request that
\* arrives after the window is admitted again.
C13_RateLimit ==
    \A c \in Clients :
        LET r == check_rate_limit(rate_limit_storage, c, clock)
            n == Cardinality(AdmittedWithin(c, clock))
        IN  /\ r.raised <=> n >= RATE_LIMIT_PER_MINUTE
            /\ r.raised => /\ r.retry_after = RetryAfter
                           /\ r.storage[c] = RecentlyAdmitted(c, clock)
            /\ ~r.raised => r.storage[c] = Append(RecentlyAdmitted(c, clock), clock)
            /\ \A i \in DOMAIN admitted[c] :
                  Cardinality(AdmittedWithin(c, admitted[c][i])) <= RATE_LIMIT_PER_MINUTE
            /\ (\A i \in DOMAIN admitted[c] : admitted[c][i] <= clock - RateWindow)
                  => ~r.raised

\* C13 witness: a client is at its limit and refused while its earlier
\* requests, admitted more than a window ago, no longer count
C13_Witness ==
    \E c \in Clients :
        /\ check_rate_limit(rate_limit_storage, c, clock).raised
        /\ Len(admitted[c]) > RATE_LIMIT_PER_MINUTE
        /\ \E d \in Clients : d # c /\ ~check_rate_limit(rate_limit_storage, d, clock).raised
                                /\ admitted[d] # <<>>

\* ------------------------------------------------ OpenRouterService
\* what the AI call can do: the request fails, the API answers with a
\* status other than 200, the body has no choices, the body is no JSON,
\* something unexpected is raised; or a reply text comes back: a JSON
\* object, a JSON object inside other text, the empty object, text that is
\* no JSON, a JSON array without an object, a JSON number
AiFailures ==
    {"request_error", "http_error", "no_choices", "invalid_json_body", "unexpected_error"}
AiReplies ==
    {"reply_object", "reply_object_in_text", "reply_empty_object", "reply_not_json",
     "reply_array", "reply_number"}
AiOutcomes == AiFailures \cup AiReplies

\* _make_request: every failure leaves as OpenRouterException
make_request(configured, ai) ==
    IF ~configured THEN [raised |-> TRUE, exc |-> "OpenRouterException", content |-> ""]
    ELSE IF ai \in AiFailures
    THEN [raised |-> TRUE, exc |-> "OpenRouterException", content |-> ""]
    ELSE [raised |-> FALSE, exc |-> "", content |-> ai]

\* _parse_enrichment_response: the object found between the first { and
\* the last }, else the whole text as JSON; the structured fallback when
\* json.loads raises JSONDecodeError
parse_enrichment_response(content) ==
    CASE content \in {"reply_object", "reply_object_in_text"} ->
            JsonValue("dict", FALSE, "ai", "ai")
      [] content = "reply_empty_object" -> EmptyMap
      [] content = "reply_array" -> JsonValue("list", FALSE, "none", "none")
      [] content = "reply_number" -> JsonValue("number", FALSE, "none", "none")
      [] OTHER -> JsonValue("dict", FALSE, "fallback", "fallback")

\* log_ai_enrichment takes len(enriched_data): TypeError for a number
log_ai_enrichment_raises(value) == value.kind = "number"

\* the body of enrich_property_data inside "async with self"
EnrichBody(configured, ai) ==
    LET rq == make_request(configured, ai)
        v == parse_enrichment_response(rq.content)
    IN  IF rq.raised THEN [raised |-> TRUE, value |-> EmptyMap]
        ELSE IF log_ai_enrichment_raises(v) THEN [raised |-> TRUE, value |-> EmptyMap]
        ELSE [raised |-> FALSE, value |-> v]

\* enrich_property_data(enable, configured, ai): enable is
\* settings.ENABLE_AI_ENRICHMENT, configured says whether the API key is set
enrich_property_data_propagating(enable, configured, ai) ==
    IF ~enable \/ ~configured THEN [raised |-> FALSE, value |-> EmptyMap]
    ELSE EnrichBody(configured, ai)
enrich_property_data(enable, configured, ai) ==
    IF ~enable \/ ~configured THEN [raised |-> FALSE, value |-> EmptyMap]
    ELSE IF EnrichBody(configured, ai).raised THEN [raised |-> FALSE, value |-> EmptyMap]
    ELSE EnrichBody(configured, ai)

Enrichment(enable, configured, ai) ==
    [called |-> TRUE, enable |-> enable, configured |-> configured, ai |-> ai,
     raised |-> enrich_property_data(enable, configured, ai).raised,
     value |-> enrich_property_data(enable, configured, ai).value]

\* a caller awaits enrich_property_data
EnrichCall(enable, configured, ai) ==
    /\ enriched' = Enrichment(enable, configured, ai)
    /\ UNCHANGED <<response, rateVars, salesVars, authVars, userVars, confVars, clientVars>>

\* ------------------------------------------------ exception handlers
\* an exception on its way to the handlers; a message is a text and the
\* number formatted into it (0: none)
Exc(class, status_code, message, details) ==
    [class |-> class, status_code |-> status_code, message |-> message,
     details |-> details]
HTTPException(status_code, detail) == Exc("HTTPException", status_code, detail, FALSE)
\* details = {"retry_after": retry_after} if retry_after else {}
RateLimitException(retry_after) ==
    Exc("RateLimitException", 429, <<"Rate limit exceeded", 0>>, retry_after # 0)

CustomExceptions ==
    {"BaseCustomException", "MLModelException", "DataValidationException",
     "OpenRouterException", "DatabaseException", "PropertyNotFoundException"}

\* create_error_response: the keys of the envelope
create_error_response(details) ==
    {"error", "status_code", "message", "timestamp"}
        \cup (IF details THEN {"details"} ELSE {})

ErrorResponse(status, keys, message, headers) ==
    HttpResponse(status, keys, message, headers, "none", "none", <<>>)

custom_exception_handler(exc) ==
    ErrorResponse(exc.status_code, create_error_response(exc.details), exc.message, {})
http_exception_handler(exc) ==
    ErrorResponse(exc.status_code, create_error_response(FALSE), exc.message, {})
validation_exception_handler(exc) ==
    ErrorResponse(422, create_error_response(TRUE), <<"Validation failed", 0>>, {})
general_exception_handler(exc) ==
    ErrorResponse(500, create_error_response(FALSE), <<"Internal server error", 0>>, {})
rate_limit_exception_handler(exc) ==
    ErrorResponse(429, {"error", "message", "retry_after"},
                  <<"Rate limit exceeded", 0>>, {"Retry-After"})

\* setup_exception_handlers: the handler registered for the class
HandleException(exc) ==
    CASE exc.class = "RateLimitException" -> rate_limit_exception_handler(exc)
      [] exc.class \in CustomExceptions -> custom_exception_handler(exc)
      [] exc.class = "HTTPException" -> http_exception_handler(exc)
      [] exc.class = "RequestValidationError" -> validation_exception_handler(exc)
      [] OTHER -> general_exception_handler(exc)

\* ------------------------------------------------------ POST /predict
MlOutcomes == {"ok", "MLModelException", "Exception"}

\* the keys of a PredictionResponse body
PredictionKeys ==
    {"predicted_price_mmk", "predicted_price_usd", "confidence_score",
     "price_range_mmk", "price_range_usd", "model_used", "feature_importance",
     "market_insights", "comparable_properties", "prediction_id", "timestamp"}

Prediction(market_insights, comparable) ==
    HttpResponse(200, PredictionKeys, <<"", 0>>, {}, market_insights, comparable, <<>>)

\* "Add AI enrichment if enabled": e is the outcome of the awaited
\* enrich_property_data; enriched_data.get raises AttributeError for a value
\* that is no dict, and the inner except continues without enrichment
AddEnrichment_unguarded(e) ==
    IF e.raised \/ (~e.value.empty /\ e.value.kind # "dict")
    THEN [raised |-> TRUE, resp |-> NoResponse]
    ELSE IF e.value.empty THEN [raised |-> FALSE, resp |-> Prediction("none", "none")]
    ELSE [raised |-> FALSE,
          resp |-> Prediction(e.value.market_insights, e.value.recommendations)]
AddEnrichment(e) ==
    IF e.raised THEN [raised |-> FALSE, resp |-> Prediction("none", "none")]
    ELSE IF e.value.empty THEN [raised |-> FALSE, resp |-> Prediction("none", "none")]
    ELSE IF e.value.kind # "dict" THEN [raised |-> FALSE, resp |-> Prediction("none", "none")]
    ELSE [raised |-> FALSE,
          resp |-> Prediction(e.value.market_insights, e.value.recommendations)]

\* whether predict_price awaits the enrichment
CallsEnrichment(req, env) ==
    req.valid /\ env.ml = "ok" /\ req.enable_ai_enrichment /\ env.enable

\* predict_price for a request of client ip at time t: the rate limiter's
\* storage afterwards, whether the client was admitted, and the response.
\* A body that fails validation never reaches the handler.
predict_price(st, ip, t, req, env) ==
    LET rl == check_rate_limit(st, ip, t)
        e == enrich_property_data(env.enable, env.configured, env.ai)
        out(storage, adm, resp) == [storage |-> storage, admitted |-> adm, resp |-> resp]
    IN  IF ~req.valid
        THEN out(st, FALSE, HandleException(Exc("RequestValidationError", 422, <<"", 0>>, TRUE)))
        ELSE IF rl.raised
        THEN out(rl.storage, FALSE, HandleException(RateLimitException(rl.retry_after)))
        ELSE IF env.ml = "MLModelException"
        THEN out(rl.storage, TRUE, HandleException(HTTPException(500, <<"str(e)", 0>>)))
        ELSE IF env.ml # "ok"
        THEN out(rl.storage, TRUE, HandleException(
                 HTTPException(500, <<"Prediction service temporarily unavailable", 0>>)))
        ELSE IF ~(req.enable_ai_enrichment /\ env.enable)
        THEN out(rl.storage, TRUE, Prediction("none", "none"))
        ELSE IF AddEnrichment(e).raised
        THEN out(rl.storage, TRUE, HandleException(
                 HTTPException(500, <<"Prediction service temporarily unavailable", 0>>)))
        ELSE out(rl.storage, TRUE, AddEnrichment(e).resp)

PredictRequests == [valid : BOOLEAN, enable_ai_enrichment : BOOLEAN]
Environments ==
    [ml : MlOutcomes, enable : BOOLEAN, configured : BOOLEAN, ai : AiOutcomes]
\* the calls that differ in what the handler does: the AI outcome matters
\* only when the enrichment is awaited
PredictCases ==
    {c \in [req : PredictRequests, env : Environments] :
        \/ CallsEnrichment(c.req, c.env)
        \/ c.env.ai = "reply_object" /\ c.env.configured}

Predict(ip, req, env) ==
    LET r == predict_price(rate_limit_storage, ip, clock, req, env)
    IN  /\ rate_limit_storage' = r.storage
        /\ admitted' = IF r.admitted THEN [admitted EXCEPT ![ip] = Append(@, clock)]
                       ELSE admitted
        /\ response' = r.resp
        /\ enriched' = IF CallsEnrichment(req, env) /\ r.admitted
                       THEN Enrichment(env.enable, env.configured, env.ai)
                       ELSE enriched
        /\ UNCHANGED <<clock, salesVars, authVars, userVars, confVars, clientVars>>

\* ------------------------------------------------ POST /predict/batch
\* BatchPredictionRequest.properties: Field(..., max_items=100)
SchemaMaxItems == 100
\* settings.MAX_PREDICTION_BATCH_SIZE, default 100
MAX_PREDICTION_BATCH_SIZE == 100
\* the values of the setting that are explored: the default and a
\* deployment that configures a smaller maximum
BatchSizeSettings == {MAX_PREDICTION_BATCH_SIZE, MinBatchSetting}

\* the fields of PropertyBase and of PredictionRequest, which extends it
PropertyBaseFields ==
    {"property_type", "condition", "size_sqft", "lot_size_sqft", "year_built",
     "location", "features", "neighborhood", "description"}
PredictionRequestFields ==
    PropertyBaseFields \cup {"enable_ai_enrichment", "model_preference"}

\* "Convert to PredictionRequest": PredictionRequest(**property_data.dict(),
\* enable_ai_enrichment=..., model_preference=...) is a TypeError when a key
\* of the dict is also given as a keyword; property_data is a
\* PredictionRequest, and dict() has every field of it
ExplicitKeywords == {"enable_ai_enrichment", "model_preference"}
ConversionRaises == (PredictionRequestFields \cap ExplicitKeywords) # {}

\* the predictions of the properties k..n, in order, or the first failure
RECURSIVE ProcessPredictions(_, _, _)
ProcessPredictions(k, n, ml) ==
    IF k > n THEN [raised |-> FALSE, predictions |-> <<>>]
    ELSE IF ConversionRaises \/ ml # "ok" THEN [raised |-> TRUE, predictions |-> <<>>]
    ELSE LET rest == ProcessPredictions(k + 1, n, ml)
         IN  [raised |-> rest.raised,
              predictions |-> IF rest.raised THEN <<>> ELSE <<k>> \o rest.predictions]

BatchKeys == {"predictions", "batch_id", "total_processed", "processing_time_seconds"}

\* batch_predict_prices for a body with n properties (property k is the
\* k-th of the input); max_batch is the configured maximum
batch_predict_prices(st, ip, t, req, env) ==
    LET rl == check_rate_limit(st, ip, t)
        pp == ProcessPredictions(1, req.n, env.ml)
        out(storage, adm, resp) == [storage |-> storage, admitted |-> adm, resp |-> resp]
    IN  IF ~req.valid \/ req.n > SchemaMaxItems
        THEN out(st, FALSE, HandleException(Exc("RequestValidationError", 422, <<"", 0>>, TRUE)))
        ELSE IF rl.raised
        THEN out(rl.storage, FALSE, HandleException(RateLimitException(rl.retry_after)))
        ELSE IF req.n > env.max_batch
        THEN out(rl.storage, TRUE, HandleException(
                 HTTPException(400, <<"Batch size exceeds maximum of", env.max_batch>>)))
        ELSE IF pp.raised
        THEN out(rl.storage, TRUE, HandleException(
                 HTTPException(500, <<"Batch prediction service temporarily unavailable", 0>>)))
        ELSE out(rl.storage, TRUE,
                 HttpResponse(200, BatchKeys, <<"", 0>>, {}, "none", "none", pp.predictions))

BatchSizes == 0..MaxSmallBatch \cup {SchemaMaxItems, SchemaMaxItems + 1}
BatchRequests == [n : BatchSizes, valid : BOOLEAN, enable_ai_enrichment : {TRUE}]
BatchEnvironments == [ml : MlOutcomes, max_batch : BatchSizeSettings]

BatchPredict(ip, req, env) ==
    LET r == batch_predict_prices(rate_limit_storage, ip, clock, req, env)
    IN  /\ rate_limit_storage' = r.storage
        /\ admitted' = IF r.admitted THEN [admitted EXCEPT ![ip] = Append(@, clock)]
                       ELSE admitted
        /\ response' = r.resp
        /\ UNCHANGED <<enriched, clock, salesVars, authVars, userVars, confVars, clientVars>>

\* a request for a path that has no route, and a handler that lets an
\* exception escape: a custom exception or any other exception
NotFound ==
    /\ response' = HandleException(HTTPException(404, <<"Not Found", 0>>))
    /\ UNCHANGED <<enriched, rateVars, salesVars, authVars, userVars, confVars, clientVars>>

EscapedExceptions ==
    {Exc(c, 500, <<"failed", 0>>, d) : c \in {"MLModelException", "DatabaseException"},
                                        d \in BOOLEAN}
    \cup {Exc("OpenRouterException", 503, <<"failed", 0>>, FALSE),
          Exc("PropertyNotFoundException", 404, <<"not found", 0>>, TRUE),
          Exc("DataValidationException", 422, <<"invalid", 0>>, TRUE),
          Exc("Exception", 0, <<"", 0>>, FALSE)}

Escaped(exc) ==
    /\ response' = HandleException(exc)
    /\ UNCHANGED <<enriched, rateVars, salesVars, authVars, userVars, confVars, clientVars>>

NextApi ==
    \/ \E ip \in Clients, c \in PredictCases : Predict(ip, c.req, c.env)
    \/ \E ip \in Clients, req \in BatchRequests, env \in BatchEnvironments :
          BatchPredict(ip, req, env)
    \/ \E enable \in BOOLEAN, configured \in BOOLEAN, ai \in AiOutcomes :
          EnrichCall(enable, configured, ai)
    \/ NotFound
    \/ \E exc \in EscapedExceptions : Escaped(exc)

SpecApi == Init /\ [][NextApi]_vars

\* the enrichment outcomes in which the call fails or yields nothing
EnrichmentFails(env) ==
    \/ ~env.configured
    \/ env.ai \in AiFailures \cup {"reply_number", "reply_empty_object"}

\* C14: for every /predict request whose ML prediction succeeds, if the AI
\* enrichment call raises or yields nothing the response is still 200 with
\* the prediction and market_insights unset; whatever the enrichment does,
\* the response is never a 5xx.
C14_EnrichmentNeverBreaksPredict ==
    /\ \A ip \in Clients, c \in PredictCases :
          LET r == predict_price(rate_limit_storage, ip, clock, c.req, c.env)
          IN  (c.req.valid /\ c.env.ml = "ok" /\ r.admitted) =>
                 /\ r.resp.status = 200
                 /\ "predicted_price_mmk" \in r.resp.keys
                 /\ (CallsEnrichment(c.req, c.env) /\ EnrichmentFails(c.env))
                       => r.resp.market_insights = "none"
    /\ \A v \in {EmptyMap, JsonValue("dict", FALSE, "ai", "ai")} :
          /\ ~AddEnrichment([raised |-> TRUE, value |-> v]).raised
          /\ AddEnrichment([raised |-> TRUE, value |-> v]).resp = Prediction("none", "none")

\* C14 witness: a prediction was answered 200 without market_insights after
\* the AI request of that call had failed
C14_Witness ==
    /\ enriched.called /\ enriched.enable /\ enriched.configured
    /\ enriched.ai \in AiFailures
    /\ response.status = 200
    /\ "predicted_price_mmk" \in response.keys
    /\ response.market_insights = "none"

\* C15: a /predict/batch request with more properties than the configured
\* maximum batch size (default 100: 101 properties) is rejected with HTTP
\* 400 whose message references the maximum, and no property is predicted.
C15_BatchTooLarge ==
    \A ip \in Clients, req \in BatchRequests, env \in BatchEnvironments :
        LET r == batch_predict_prices(rate_limit_storage, ip, clock, req, env)
        IN  ( /\ req.valid
              /\ req.n > env.max_batch
              /\ ~check_rate_limit(rate_limit_storage, ip, clock).raised ) =>
                /\ r.resp.status = 400
                /\ r.resp.message = <<"Batch size exceeds maximum of", env.max_batch>>
                /\ r.resp.predictions = <<>>

\* C16: a /predict/batch request with n valid properties, 1 <= n <= the
\* maximum batch size, is answered 200 with exactly n predictions in input
\* order, total_processed = n and a batch id, when every single prediction
\* succeeds.
C16_BatchAnswersAll ==
    \A ip \in Clients, req \in BatchRequests, env \in BatchEnvironments :
        LET r == batch_predict_prices(rate_limit_storage, ip, clock, req, env)
        IN  ( /\ req.valid
              /\ req.n >= 1 /\ req.n <= env.max_batch
              /\ env.ml = "ok"
              /\ ~check_rate_limit(rate_limit_storage, ip, clock).raised ) =>
                /\ r.resp.status = 200
                /\ r.resp.predictions = [k \in 1..req.n |-> k]
                /\ {"batch_id", "total_processed"} \subseteq r.resp.keys

\* the calls of enrich_property_data that the claim counts as failures
EnrichFailure(e) ==
    \/ ~e.enable \/ ~e.configured
    \/ e.ai \in AiFailures
    \/ e.ai = "reply_number"

C19_ErrorEnvelope ==
    response.status >= 400 =>
        /\ response.error
        /\ {"error", "status_code", "message", "timestamp"} \subseteq response.keys

\* ---------------------------------------------------------------------
\* OpenRouterService: the HTTP client of the shared service instance.
\* Every operation runs "async with self: ... await self._make_request(...)".
\* __aenter__ has no await, and _make_request reads self.client before its
\* first await, so entering the scope and starting the request is one step
\* of the event loop; the request itself is awaited; leaving the scope, on
\* return or on an exception, runs __aexit__, which closes self.client.

\* async with self (__aenter__), then self.client.post(...) is started
aenter(o) ==
    /\ pc[o] = "idle"
    /\ created < MaxClients
    /\ created' = created + 1
    /\ client' = created + 1
    /\ acquired' = [acquired EXCEPT ![o] = created + 1]
    /\ sent' = [sent EXCEPT ![o] = created + 1]
    /\ pc' = [pc EXCEPT ![o] = "awaiting"]
    /\ UNCHANGED <<closes, rateVars, apiVars, salesVars, authVars, userVars, confVars>>

\* the awaited request returns or raises, and the scope is left:
\* __aexit__ closes whatever self.client is now
aexit(o, outcome) ==
    /\ pc[o] = "awaiting"
    /\ outcome \in {"reply", "error"}
    /\ IF client # NoClient
       THEN closes' = [closes EXCEPT ![client] = @ + 1]
       ELSE UNCHANGED closes
    /\ pc' = [pc EXCEPT ![o] = "done"]
    /\ UNCHANGED <<client, created, acquired, sent, rateVars, apiVars, salesVars, authVars, userVars, confVars>>

\* the operation has returned; the endpoint can be called again
Return(o) ==
    /\ pc[o] = "done"
    /\ pc' = [pc EXCEPT ![o] = "idle"]
    /\ acquired' = [acquired EXCEPT ![o] = NoClient]
    /\ sent' = [sent EXCEPT ![o] = NoClient]
    /\ UNCHANGED <<client, created, closes, rateVars, apiVars, salesVars, authVars, userVars, confVars>>

NextClient ==
    \/ \E o \in Operations : aenter(o)
    \/ \E o \in Operations, outcome \in {"reply", "error"} : aexit(o, outcome)
    \/ \E o \in Operations : Return(o)

SpecClient == Init /\ [][NextClient]_vars

\* C18: for any interleaving of AI operations on the one shared
\* OpenRouterService, each operation sends its request on the HTTP client it
\* acquired, that client is not closed before the operation ends, and every
\* client created is closed exactly once when its operation ends, also on
\* error.
C18_ClientLifecycle ==
    \A o \in Operations :
        /\ pc[o] # "idle" => sent[o] = acquired[o]
        /\ pc[o] = "awaiting" => closes[acquired[o]] = 0
        /\ pc[o] = "done" => closes[acquired[o]] = 1

\* ---------------------------------------------------- set_active_shop
\* hasattr(user, name) on a res.users record: true for a declared field
hasattr(name) == name \in ResUsersFields

\* the value read from a many2many attribute of the user
ShopsOf(u, name) == IF name = "shop_ids" THEN shop_ids[u] ELSE {}

\* the answer of a controller method of AuthController
AuthAnswer(status, user, active_shop_id, pointer) ==
    [status |-> status, user |-> user, active_shop_id |-> active_shop_id,
     pos_active_shop_id |-> pointer]

\* set_active_shop: the 401, 400, 403 answers, then the write and the
\* profile; browse(shop_id) of a non-zero id is never empty, so the 404
\* answer is not produced
set_active_shop(token, shop_id) ==
    IF token = NoToken \/ UserOfToken(token) = 0
    THEN AuthAnswer("Unauthorized", 0, NoShop, pos_active_shop_id)
    ELSE
    LET user == UserOfToken(token)
    IN  IF TokenExpired(user)
        THEN AuthAnswer("Unauthorized", 0, NoShop, pos_active_shop_id)
        ELSE IF shop_id = NoShop
        THEN AuthAnswer("BadRequest", 0, NoShop, pos_active_shop_id)
        ELSE IF \/ ~hasattr("pos_shop_ids")
                \/ ShopsOf(user, "pos_shop_ids") = {}
                \/ shop_id \notin ShopsOf(user, "pos_shop_ids")
        THEN AuthAnswer("Forbidden", 0, NoShop, pos_active_shop_id)
        ELSE AuthAnswer("ok", user, shop_id,
                        [pos_active_shop_id EXCEPT ![user] = shop_id])

ShopIds == Shops \cup {NoShop}

SetActiveShop(token, shop_id) ==
    /\ pos_active_shop_id' = set_active_shop(token, shop_id).pos_active_shop_id
    /\ UNCHANGED <<authVars, salesVars, predVars, confVars>>

NextShop ==
    \/ NextAuth
    \/ \E t \in Bearers, s \in ShopIds : SetActiveShop(t, s)

SpecShop == Init /\ [][NextShop]_vars

\* C20: set active shop with a valid, unexpired bearer token: when the shop
\* id is in the user's assigned shop set, the user's active-shop pointer is
\* set to that shop and the profile is returned; when it is not in the
\* assigned set the call fails with Forbidden and the active-shop pointer
\* is unchanged.
C20_SetActiveShop ==
    \A t \in Bearers, s \in Shops :
        LET a == get_current_user(t)
            r == set_active_shop(t, s)
        IN  a.status = "ok" =>
              /\ s \in shop_ids[a.user] =>
                    /\ r.status = "ok"
                    /\ r.user = a.user
                    /\ r.active_shop_id = s
                    /\ r.pos_active_shop_id = [pos_active_shop_id EXCEPT ![a.user] = s]
              /\ s \notin shop_ids[a.user] =>
                    /\ r.status = "Forbidden"
                    /\ r.pos_active_shop_id = pos_active_shop_id

\* ---------------------------------------------- pos.product.category
\* a category record: parent_id (NoCategory: none) and shop_id
NoCategory == 0
Category(parent_id, shop_id) == [parent_id |-> parent_id, shop_id |-> shop_id]

\* models.Model._check_recursion for record c: following parent_id from c
\* never comes back to c
RECURSIVE ReachesBack(_, _, _, _)
ReachesBack(cats, c, cur, fuel) ==
    IF cur = NoCategory THEN FALSE
    ELSE IF cur = c THEN TRUE
    ELSE IF fuel = 0 THEN FALSE
    ELSE ReachesBack(cats, c, cats[cur].parent_id, fuel - 1)
check_recursion(cats, c) == ~ReachesBack(cats, c, cats[c].parent_id, Len(cats))

\* @api.constrains('parent_id') _check_category_recursion: TRUE when it raises
check_category_recursion(cats, c) == ~check_recursion(cats, c)

\* @api.constrains('parent_id', 'shop_id') _check_parent_shop on the records
\* of self, the record c being created or written: TRUE when it raises
check_parent_shop(cats, c) ==
    /\ cats[c].parent_id # NoCategory
    /\ cats[cats[c].parent_id].shop_id # cats[c].shop_id

\* the values of a write: "keep" stands for a key that is not in vals
Keep == -1

\* create(vals): the constraints of the fields of vals run on the new record
Category_create(cats, parent_id, shop_id) ==
    LET new == Append(cats, Category(parent_id, shop_id))
    IN  IF check_parent_shop(new, Len(new))
        THEN [categories |-> cats, raised |-> TRUE]
        ELSE [categories |-> new, raised |-> FALSE]

\* write(vals) on record c: the constraints whose fields are in vals run on
\* c; a ValidationError rolls the write back
Category_write(cats, c, parent_id, shop_id) ==
    LET new == [cats EXCEPT ![c] =
                  Category(IF parent_id = Keep THEN @.parent_id ELSE parent_id,
                           IF shop_id = Keep THEN @.shop_id ELSE shop_id)]
        raises == \/ parent_id # Keep /\ check_category_recursion(new, c)
                  \/ (parent_id # Keep \/ shop_id # Keep) /\ check_parent_shop(new, c)
    IN  IF raises
        THEN [categories |-> cats, raised |-> TRUE]
        ELSE [categories |-> new, raised |-> FALSE]

OtherConf(own) == UNCHANGED <<salesVars, authVars, userVars, predVars, own>>

CreateCategory(parent_id, shop_id) ==
    /\ Len(categories) < MaxCategories
    /\ categories' = Category_create(categories, parent_id, shop_id).categories
    /\ OtherConf(<<methodVars, productVars, mlVars, devVars, healthVars>>)

WriteCategory(c, parent_id, shop_id) ==
    /\ c \in DOMAIN categories
    /\ categories' = Category_write(categories, c, parent_id, shop_id).categories
    /\ OtherConf(<<methodVars, productVars, mlVars, devVars, healthVars>>)

NextCategory ==
    \/ \E p \in {NoCategory} \cup DOMAIN categories, s \in Shops : CreateCategory(p, s)
    \/ \E c \in DOMAIN categories,
          p \in {Keep, NoCategory} \cup DOMAIN categories,
          s \in {Keep} \cup Shops : WriteCategory(c, p, s)

SpecCategory == Init /\ [][NextCategory]_vars

\* C21: after any sequence of category create and write operations,
\* including writes that change the shop or the parent of a category that
\* has children, every category with a parent belongs to the same shop as
\* its parent.
C21_ParentSameShop ==
    \A c \in DOMAIN categories :
        categories[c].parent_id # NoCategory =>
            categories[categories[c].parent_id].shop_id = categories[c].shop_id

\* ---------------------------------------------- pos.payment.method
Providers == {"none", "stripe", "paypal", "square", "custom"}

\* @api.onchange('is_cash_count')
onchange_is_cash_count(m) ==
    IF m.is_cash_count
    THEN [m EXCEPT !.split_transactions = FALSE,
                   !.use_payment_terminal = FALSE,
                   !.payment_terminal_provider = "none"]
    ELSE m

\* @api.onchange('use_payment_terminal')
onchange_use_payment_terminal_keep_cash(m) ==
    IF m.use_payment_terminal
    THEN m
    ELSE [m EXCEPT !.payment_terminal_provider = "none",
                   !.terminal_api_key = FALSE,
                   !.terminal_api_secret = FALSE,
                   !.terminal_endpoint = FALSE]
onchange_use_payment_terminal(m) ==
    IF m.use_payment_terminal
    THEN [m EXCEPT !.is_cash_count = FALSE]
    ELSE [m EXCEPT !.payment_terminal_provider = "none",
                   !.terminal_api_key = FALSE,
                   !.terminal_api_secret = FALSE,
                   !.terminal_endpoint = FALSE]

\* the form's onchange call for one edited field: the field's handler runs,
\* then the handler of the other flag when the first handler changed that
\* flag (every handler at most once)
Onchange(m, name) ==
    IF name = "is_cash_count"
    THEN LET m1 == onchange_is_cash_count(m)
         IN  IF m1.use_payment_terminal # m.use_payment_terminal
             THEN onchange_use_payment_terminal(m1) ELSE m1
    ELSE IF name = "use_payment_terminal"
    THEN LET m1 == onchange_use_payment_terminal(m)
         IN  IF m1.is_cash_count # m.is_cash_count
             THEN onchange_is_cash_count(m1) ELSE m1
    ELSE m

\* the user sets one field of the form to a value
Edit(m, name, value) == Onchange([m EXCEPT ![name] = value], name)

EditValues(name) ==
    IF name = "payment_terminal_provider" THEN Providers ELSE BOOLEAN

ChangeFlag(name, value) ==
    /\ name \in {"is_cash_count", "use_payment_terminal"}
    /\ method' = Edit(method, name, value)
    /\ OtherConf(<<categoryVars, productVars, mlVars, devVars, healthVars>>)

\* the fields without a change rule
OtherFields == {"split_transactions", "payment_terminal_provider",
                "terminal_api_key", "terminal_api_secret", "terminal_endpoint"}

ChangeOther(name, value) ==
    /\ name \in OtherFields
    /\ method' = Edit(method, name, value)
    /\ OtherConf(<<categoryVars, productVars, mlVars, devVars, healthVars>>)

NextMethod ==
    \/ \E name \in {"is_cash_count", "use_payment_terminal"}, v \in BOOLEAN :
          ChangeFlag(name, v)
    \/ \E name \in OtherFields : \E v \in EditValues(name) : ChangeOther(name, v)

SpecMethod == Init /\ [][NextMethod]_vars

\* C22: starting from a payment method with neither flag set, after any
\* sequence of changes to is_cash_count and use_payment_terminal handled by
\* the change rules, the method never has is_cash_count and
\* use_payment_terminal both true, and enabling cash-count leaves
\* split_transactions false and the terminal provider 'none'.
C22_ExclusiveFlags ==
    /\ ~(method.is_cash_count /\ method.use_payment_terminal)
    /\ LET m == Edit(method, "is_cash_count", TRUE)
       IN  /\ m.is_cash_count
           /\ ~m.use_payment_terminal
           /\ ~m.split_transactions
           /\ m.payment_terminal_provider = "none"
    /\ LET m == Edit(method, "use_payment_terminal", TRUE)
       IN  m.use_payment_terminal /\ ~m.is_cash_count

\* C22 witness: cash-count has been enabled (only that edit sets the flag)
\* on a method whose terminal settings had been filled in, and the rule has
\* left the terminal off, the provider 'none' and the transactions unsplit
C22_Witness ==
    /\ method.is_cash_count
    /\ ~method.use_payment_terminal
    /\ ~method.split_transactions
    /\ method.payment_terminal_provider = "none"
    /\ method.terminal_endpoint

\* ---------------------------------------------- product.template prices
Prices == 0..MaxPrice
Dates == 0..MaxTime

\* Python's "a or b" on two amounts
Or(a, b) == IF a # 0 THEN a ELSE b

\* ProductTemplate.get_current_price, t the value of fields.Datetime.now()
get_current_price_open_end(p, t) ==
    IF /\ p.discount_price # 0
       /\ p.discount_start # NoDate /\ p.discount_end # NoDate
       /\ p.discount_start <= t /\ t < p.discount_end
    THEN p.discount_price
    ELSE Or(p.list_price_shop, p.list_price)
get_current_price(p, t) ==
    IF /\ p.discount_price # 0
       /\ p.discount_start # NoDate /\ p.discount_end # NoDate
       /\ p.discount_start <= t /\ t <= p.discount_end
    THEN p.discount_price
    ELSE Or(p.list_price_shop, p.list_price)

\* write of one price field, or of one date of the discount
WritePrice(name, value) ==
    /\ name \in {"list_price", "list_price_shop", "discount_price"}
    /\ product_template' = [product_template EXCEPT ![name] = value]
    /\ OtherConf(<<categoryVars, methodVars, mlVars, devVars, healthVars>>)

WriteDate(name, value) ==
    /\ name \in {"discount_start", "discount_end"}
    /\ product_template' = [product_template EXCEPT ![name] = value]
    /\ OtherConf(<<categoryVars, methodVars, mlVars, devVars, healthVars>>)

NextProduct ==
    \/ \E name \in {"list_price", "list_price_shop", "discount_price"}, v \in Prices :
          WritePrice(name, v)
    \/ \E name \in {"discount_start", "discount_end"}, v \in Dates \cup {NoDate} :
          WriteDate(name, v)

SpecProduct == Init /\ [][NextProduct]_vars

\* the discount of p is in force at t: a discount price is set, both dates
\* are set, and discount_start <= t <= discount_end
DiscountInForce(p, t) ==
    /\ p.discount_price > 0
    /\ p.discount_start \in Dates /\ p.discount_end \in Dates
    /\ t \in p.discount_start .. p.discount_end

\* C23: get_current_price returns the discount price when a discount price
\* is set and discount_start <= now <= discount_end; otherwise the shop
\* selling price when one is set; otherwise the base list price.
C23_CurrentPrice ==
    \A t \in Dates :
        LET p == product_template
            price == get_current_price(p, t)
        IN  /\ DiscountInForce(p, t) => price = p.discount_price
            /\ (~DiscountInForce(p, t) /\ p.list_price_shop > 0)
                  => price = p.list_price_shop
            /\ (~DiscountInForce(p, t) /\ p.list_price_shop = 0)
                  => price = p.list_price

\* C23 witness: a product whose three prices differ, priced with its
\* discount on the last instant of the discount and with the shop price
\* before the discount starts
C23_Witness ==
    /\ product_template.discount_price > 0
    /\ product_template.list_price_shop > product_template.discount_price
    /\ product_template.list_price # product_template.list_price_shop
    /\ product_template.discount_start > 0
    /\ product_template.discount_end >= product_template.discount_start
    /\ get_current_price(product_template, product_template.discount_end)
          = product_template.discount_price
    /\ get_current_price(product_template, product_template.discount_start - 1)
          = product_template.list_price_shop

\* ------------------------------------------------------------ /stats
\* sum(len(requests) for requests in rate_limit_storage.values())
RECURSIVE SumLen(_, _)
SumLen(st, ips) ==
    IF ips = {} THEN 0
    ELSE LET ip == CHOOSE x \in ips : TRUE
         IN  Len(st[ip]) + SumLen(st, ips \ {ip})

\* get_api_stats: the two numbers of the answer
get_api_stats(st) ==
    [total_requests_last_minute |-> SumLen(st, DOMAIN st),
     active_clients |-> Cardinality(DOMAIN st)]

\* the admitted requests of all clients within the 60 seconds that end at t
RECURSIVE AdmittedLastMinute(_, _)
AdmittedLastMinute(cs, t) ==
    IF cs = {} THEN 0
    ELSE LET c == CHOOSE x \in cs : TRUE
         IN  Cardinality(AdmittedWithin(c, t)) + AdmittedLastMinute(cs \ {c}, t)

\* C24: at any time, /stats reports as total_requests_last_minute the
\* number of admitted rate-limited requests, summed over all tracked client
\* IPs, whose timestamp lies within the last 60 seconds; requests older
\* than one minute are not counted.
C24_StatsLastMinute ==
    get_api_stats(rate_limit_storage).total_requests_last_minute
        = AdmittedLastMinute(Clients, clock)

\* ---------------------------------------------------- /api/v1/health
\* what the live check meets: a failing request, a reply that contains
\* "OK", another reply; or the awaited check raises
HealthReplies == {"reply_ok", "reply_other"}
LiveOutcomes == AiFailures \cup HealthReplies \cup {"check_raises"}

\* OpenRouterService.health_check: False without headers and on every
\* exception, else "OK" in response.upper()
service_health_check(configured, live) ==
    IF ~configured THEN FALSE
    ELSE IF make_request(configured, live).raised THEN FALSE
    ELSE make_request(configured, live).content = "reply_ok"

\* the health_check handler; enable is settings.ENABLE_AI_ENRICHMENT and
\* configured says whether settings.OPENROUTER_API_KEY is set
health_check(enable, configured, live) ==
    LET initial == IF configured THEN "healthy" ELSE "disabled"
        checked == IF live = "check_raises" THEN "unhealthy"
                   ELSE IF service_health_check(configured, live) THEN "healthy"
                   ELSE "unhealthy"
    IN  [called |-> TRUE, enable |-> enable, configured |-> configured, live |-> live,
         status |-> 200, ml_service |-> "healthy",
         openrouter_service |-> IF enable /\ configured THEN checked ELSE initial]

Health(enable, configured, live) ==
    /\ health' = health_check(enable, configured, live)
    /\ UNCHANGED <<salesVars, authVars, userVars, predVars,
                   categoryVars, methodVars, productVars, mlVars, devVars>>

\* the requests that reach the OpenRouter service
NextHealth ==
    \/ \E enable \in BOOLEAN, configured \in BOOLEAN, live \in LiveOutcomes :
          Health(enable, configured, live)
    \/ \E enable \in BOOLEAN, configured \in BOOLEAN, ai \in AiOutcomes :
          EnrichCall(enable, configured, ai)

SpecHealth == Init /\ [][NextHealth]_vars

\* C25: /api/v1/health reports the AI-enrichment component as healthy or
\* unhealthy, according to a live health check, exactly when AI enrichment
\* is enabled and an API key is configured, and as "disabled" in every
\* other configuration; an exception raised by the check yields unhealthy
\* and the endpoint still answers.
C25_HealthComponent ==
    health.called =>
        /\ health.status = 200
        /\ (health.enable /\ health.configured) =>
              /\ health.openrouter_service \in {"healthy", "unhealthy"}
              /\ health.openrouter_service = "healthy" <=> health.live = "reply_ok"
        /\ ~(health.enable /\ health.configured) =>
              health.openrouter_service = "disabled"

\* ------------------------------------------------ MLModelManager.predict
\* R-squared values and the confidence bounds are in hundredths; NaN stands
\* for float('nan'), which compares false with everything
ModelNames == {"xgboost", "lightgbm", "random_forest", "gradient_boosting"}
NaN == 1000
R2Values == {-20, 70, 99, NaN}
ConfidenceMin == 50
ConfidenceMax == 95
DefaultR2 == 70

\* Python's a > b and a < b on floats
Gt(a, b) == a # NaN /\ b # NaN /\ a > b
Lt(a, b) == a # NaN /\ b # NaN /\ a < b
\* Python's max(a, b) and min(a, b): the first argument unless the second
\* is greater (smaller)
max(a, b) == IF Gt(b, a) THEN b ELSE a
min(a, b) == IF Lt(b, a) THEN b ELSE a

\* the model predict uses, and the key whose metric gives the confidence:
\* model_name.replace('ensemble', 'xgboost')
ModelUsed(mm, model_preference) ==
    IF model_preference \in mm.models THEN model_preference ELSE "ensemble"
MetricKey(model_name) == IF model_name = "ensemble" THEN "xgboost" ELSE model_name

\* self.model_metrics.get(key, self.model_metrics.get('xgboost', 0.7)).r2_score
MetricR2(mm, key) ==
    IF key \in DOMAIN mm.metrics THEN mm.metrics[key]
    ELSE IF "xgboost" \in DOMAIN mm.metrics THEN mm.metrics["xgboost"]
    ELSE DefaultR2

\* predict: the model used and the confidence score of the answer
predict_unclamped(mm, model_preference) ==
    [model_used |-> ModelUsed(mm, model_preference),
     confidence_score |-> MetricR2(mm, MetricKey(ModelUsed(mm, model_preference)))]
predict(mm, model_preference) ==
    [model_used |-> ModelUsed(mm, model_preference),
     confidence_score |->
        min(ConfidenceMax,
            max(ConfidenceMin,
                MetricR2(mm, MetricKey(ModelUsed(mm, model_preference)))))]

\* train_models: every configured model is fitted and its metrics stored
TrainModels(r2) ==
    /\ r2 \in [ModelNames -> R2Values]
    /\ model_metrics' = [models |-> model_metrics.models \cup ModelNames,
                         metrics |-> [n \in DOMAIN model_metrics.metrics \cup ModelNames |->
                                        r2[n]]]
    /\ OtherConf(<<categoryVars, methodVars, productVars, devVars, healthVars>>)

\* _load_models: a model file found on disk
LoadModel(name) ==
    /\ name \in ModelNames
    /\ model_metrics' = [model_metrics EXCEPT !.models = @ \cup {name}]
    /\ OtherConf(<<categoryVars, methodVars, productVars, devVars, healthVars>>)

\* _load_models: an entry of model_metrics.json
LoadMetric(name, r2) ==
    /\ name \in ModelNames
    /\ model_metrics' =
          [model_metrics EXCEPT !.metrics =
              [n \in DOMAIN @ \cup {name} |-> IF n = name THEN r2 ELSE @[n]]]
    /\ OtherConf(<<categoryVars, methodVars, productVars, devVars, healthVars>>)

NextPredict ==
    \/ \E r2 \in [ModelNames -> R2Values] : TrainModels(r2)
    \/ \E name \in ModelNames : LoadModel(name)
    \/ \E name \in ModelNames, r2 \in R2Values : LoadMetric(name, r2)

SpecPredict == Init /\ [][NextPredict]_vars

\* the model preferences of a request: a model name, 'ensemble', none
ModelPreferences == ModelNames \cup {"ensemble", ""}

\* x clamped to the interval [0.5, 0.95]
Clamped(x) == IF x < ConfidenceMin THEN ConfidenceMin
              ELSE IF x > ConfidenceMax THEN ConfidenceMax ELSE x

\* C26: for every prediction returned by predict, with a preferred single
\* model or with the ensemble, 0.5 <= confidence_score <= 0.95 whatever the
\* stored R-squared values are; the score is the chosen model's R-squared
\* (for the ensemble, the proxy model's) clamped to that interval, and 0.7
\* when no metric exists at all.
C26_ConfidenceClamped ==
    \A model_preference \in ModelPreferences :
        LET p == predict(model_metrics, model_preference)
            key == IF p.model_used = "ensemble" THEN "xgboost" ELSE p.model_used
            stored == model_metrics.metrics
        IN  /\ p.confidence_score >= ConfidenceMin
            /\ p.confidence_score <= ConfidenceMax
            /\ (key \in DOMAIN stored /\ stored[key] # NaN)
                  => p.confidence_score = Clamped(stored[key])
            /\ DOMAIN stored = {} => p.confidence_score = DefaultR2

\* C26 witness: a single model with R-squared 0.99 and the ensemble whose
\* proxy has R-squared -0.2 are both asked for a prediction
C26_Witness ==
    /\ "lightgbm" \in model_metrics.models
    /\ "lightgbm" \in DOMAIN model_metrics.metrics
    /\ "xgboost" \in DOMAIN model_metrics.metrics
    /\ model_metrics.metrics["lightgbm"] = 99
    /\ model_metrics.metrics["xgboost"] = -20
    /\ predict(model_metrics, "lightgbm").model_used = "lightgbm"
    /\ predict(model_metrics, "lightgbm").confidence_score = ConfidenceMax
    /\ predict(model_metrics, "ensemble").confidence_score = ConfidenceMin

\* ---------------------------------------------------------------------
\* scripts/dev.py: DevTools.full_setup
\* ---------------------------------------------------------------------

\* what a step function returns: True or False (each of them catches
\* every exception and returns False)
Returned(ok) == IF ok THEN "ok" ELSE "fail"

\* lint_code: runs its four commands whatever the earlier ones returned
\* and answers whether all of them passed
lint_code(failed) == failed = {}

\* steps = [...]: the list display evaluates its elements from left to
\* right; a call of an async function leaves a coroutine object, a call
\* of a plain function runs the function and leaves its return value
EvalStep ==
    /\ setup.pc = "steps"
    /\ LET i    == setup.i
           name == StepNames[i]
           next == IF i = Len(StepNames)
                   THEN [setup EXCEPT !.pc = "loop", !.i = 1]
                   ELSE [setup EXCEPT !.i = i + 1]
       IN  \/ /\ IsCoroutineFunction(name)
              /\ setup' = [next EXCEPT !.result[i] = "coroutine"]
           \/ /\ ~IsCoroutineFunction(name)
              /\ name = "Code linting"
              /\ \E failed \in SUBSET LintCommands :
                    setup' = [next EXCEPT
                                !.started = Append(@, name),
                                !.lint = failed,
                                !.result[i] = Returned(lint_code(failed))]
           \/ /\ ~IsCoroutineFunction(name)
              /\ name # "Code linting"
              /\ \E ok \in BOOLEAN :
                    setup' = [next EXCEPT
                                !.started = Append(@, name),
                                !.result[i] = Returned(ok)]
    /\ OtherConf(<<categoryVars, methodVars, productVars, mlVars,
                   healthVars>>)

\* for step_name, step_coro in steps: a coroutine is awaited (its body
\* runs now), any other value is the success flag itself; the first
\* False ends the setup
RunStep ==
    /\ setup.pc = "loop"
    /\ LET i    == setup.i
           name == StepNames[i]
           Finish(st, success) ==
               IF ~success
               THEN [st EXCEPT !.pc = "done", !.failed_at = name,
                               !.ret = "False"]
               ELSE IF i = Len(StepNames)
                    THEN [st EXCEPT !.pc = "done", !.ret = "True"]
                    ELSE [st EXCEPT !.i = i + 1]
       IN  \/ /\ setup.result[i] = "coroutine"
              /\ \E ok \in BOOLEAN :
                    setup' = Finish([setup EXCEPT
                                       !.started = Append(@, name),
                                       !.result[i] = Returned(ok)], ok)
           \/ /\ setup.result[i] # "coroutine"
              /\ setup' = Finish(setup, setup.result[i] = "ok")
    /\ OtherConf(<<categoryVars, methodVars, productVars, mlVars,
                   healthVars>>)

NextSetup == EvalStep \/ RunStep

SpecSetup == Init /\ [][NextSetup]_vars

\* position of a step in the list
StepIndex(name) == CHOOSE n \in 1..Len(StepNames) : StepNames[n] = name

\* C27: full_setup runs database setup, sample-data generation, model
\* training, linting and tests in that order, each step starting only
\* after the previous one has succeeded; when a step fails no later step
\* is run and the failing step is the one reported.
C27_StepsInOrder ==
    LET n == Len(setup.started)
    IN  /\ n <= Len(StepNames)
        /\ \A k \in 1..n : setup.started[k] = StepNames[k]
        /\ \A k \in 1..n : k < n => setup.result[k] = "ok"
        /\ setup.ret = "False" =>
              /\ n >= 1
              /\ setup.failed_at = setup.started[n]
              /\ setup.result[n] = "fail"
        /\ setup.ret = "True" =>
              /\ n = Len(StepNames)
              /\ \A k \in 1..n : setup.result[k] = "ok"

\* ---------------------------------------------------------------------
\* pos.order: paid and done orders against their payments
\* ---------------------------------------------------------------------

\* the orders in state paid or done are covered by their completed
\* non-change payments
PaidOrdersCovered(d) ==
    \A o \in OrderIds(d) :
        d.orders[o].state \in {"paid", "done"} =>
            amount_paid(d, o) >= amount_total(d, o)

\* the step takes no payment out of status done
NoPaymentReversed ==
    \A p \in DOMAIN payments :
        payments[p].payment_status = "done" =>
            payments'[p].payment_status = "done"

NextCancel ==
    \/ NextOrder
    \/ \E i \in 1..MaxSessions : CancelSession(i)

SpecCancel == Init /\ [][NextCancel]_vars

\* C29: every operation that puts an order into state cancel, action_cancel
\* on the order and action_cancel_session on its session, has reversed each
\* of the order's payments with status done when the state changes: an
\* order that has just become cancel has no payment with status done.
C29_CancelReversesPayments ==
    [][ \A o \in DOMAIN orders :
          (orders[o].state # "cancel" /\ orders'[o].state = "cancel") =>
              DonePaymentsOf(DB', o) = {} ]_vars

\* ---------------------------------------------------------------------
\* POSSalesController.create_order: failures after the order was created
\* ---------------------------------------------------------------------

\* the request passes the key and lines tests, its session is resolved and
\* its order record is created
OrderRecordCreated(d, req) ==
    /\ validate_api_key(req.api_key)
    /\ req.lines # <<>>
    /\ LET rs == ResolveSession(d, req.api_key, req)
       IN  /\ ~rs.raised
           /\ ~PosOrder_create(rs.db, req.api_key, rs.rid, req.external_id).raised

\* C30: when create order fails after the order record was created (a line
\* or payment creation raising, or the requested paid or done transition
\* raising), the response is success false and nothing of the request
\* remains stored: no order, order line, payment or auto-created session.
C30_FailedCreateLeavesNothing ==
    \A req \in CreateOrderReqs :
        LET r == create_order(DB, req)
        IN  (OrderRecordCreated(DB, req) /\ r.raised) => r.db = DB

====
